---- MODULE Spec2Model ----
(***************************************************************************)
(* Email assistant with human-in-the-loop review (LangGraph state graphs). *)
(*                                                                         *)
(* Two assistants are modelled side by side, selected by `variant`:        *)
(*   "hitl"   - src/src/email_assistant_hitl.ts                            *)
(*   "memory" - src/unnamed/part_001 (email_assistant_hitl_memory)         *)
(*                                                                         *)
(* A state is the graph state of one thread (email_input, messages,        *)
(* classification_decision), the node scheduled next (pc), the pending     *)
(* interrupt and the resume values handed back by the human, the shared    *)
(* memory store, and the log of tool invocations (the side effects).       *)
(*                                                                         *)
(* Strings are modelled as sequences of text fragments; x.includes(p) is   *)
(* the occurrence of fragment p.  JavaScript values that the code inspects *)
(* with typeof are tagged records [t, v].                                  *)
(***************************************************************************)
EXTENDS Integers, Sequences, FiniteSets, TLC

VARIABLES variant, email_input, messages, classification_decision,
          pc, pending, resumes, toolLog, store, memLog, steps,
          lastCommand, lastRun, interruptLog, lastCall, inflight

vars == <<variant, email_input, messages, classification_decision,
          pc, pending, resumes, toolLog, store, memLog, steps,
          lastCommand, lastRun, interruptLog, lastCall, inflight>>

(***************************************************************************)
(* Bounds of the model.                                                    *)
(***************************************************************************)
MaxSteps == 7
MaxReplyWords == 2

(***************************************************************************)
(* JavaScript values                                                       *)
(***************************************************************************)
Undefined == [t |-> "undefined", v |-> ""]
Str(s) == [t |-> "string", v |-> s]
Obj(o) == [t |-> "object", v |-> o]

\* reviewData.args : only the ActionRequest-shaped object has an args field
Field_args(x) ==
  IF x.t = "object" /\ x.v = "request_edited" THEN Obj("edited") ELSE Undefined

Truthy_Always(x) == TRUE

\* JS truthiness of a value (undefined and "" are falsy)
Truthy(x) == x.t = "object" \/ (x.t = "string" /\ x.v # "")

END == "__end__"
NoId == ""

(***************************************************************************)
(* Messages                                                                *)
(***************************************************************************)
Msg(role, content, calls, id) ==
  [role |-> role, content |-> content, tool_calls |-> calls, tool_call_id |-> id]
HumanMessage(content) == Msg("human", content, <<>>, NoId)
SystemMessage(content) == Msg("system", content, <<>>, NoId)
ToolMessage(content, id) == Msg("tool", content, <<>>, id)
AIMessage(content, calls) == Msg("ai", content, calls, NoId)

Includes(text, fragment) == \E i \in 1..Len(text) : text[i] = fragment

ReplyPhrase == "User wants to reply to the email"

(***************************************************************************)
(* Emails                                                                  *)
(***************************************************************************)
Email(body) ==
  [isNull |-> FALSE, from_email |-> "alice@example.com",
   to_email |-> "lance@example.com", subject |-> "Status", page_content |-> body]
NullEmail ==
  [isNull |-> TRUE, from_email |-> "", to_email |-> "", subject |-> "",
   page_content |-> ""]
EmailInputs == {Email("Server maintenance on Saturday"), Email(ReplyPhrase), NullEmail}

parseEmail(email) ==
  [threw |-> email.isNull, author |-> email.from_email, to |-> email.to_email,
   subject |-> email.subject, emailThread |-> email.page_content]

formatEmailMarkdown(subject, author, to, emailThread) ==
  <<"## Email: ", subject, "**From**: ", author, "**To**: ", to, emailThread>>

EmailMarkdown(email) ==
  LET p == parseEmail(email)
  IN formatEmailMarkdown(p.subject, p.author, p.to, p.emailThread)

(***************************************************************************)
(* Memory store                                                            *)
(***************************************************************************)
Namespaces == {"triage_preferences", "response_preferences", "cal_preferences"}
NoEntry == "<no entry>"
DefaultProfile(ns) == "default " \o ns
\* outcome of updateMemory's try block when store.get, the LLM call or store.put
\* throws: the catch block only logs
LlmFails == "<llm call failed>"
LearnedProfiles == {"learned profile"}

\* A store entry is written here as the memoryContent of the stored item.
\* ValueItem is the item { value: SeededPreference }, which has no
\* memoryContent field; reading that field gives undefined, which
\* String.replace substitutes as the text "undefined".
SeededPreference == "25-minute meetings"
ValueItem == "{ value: 25-minute meetings }"
UndefinedText == "undefined"
memoryContent(item) == IF item = ValueItem THEN UndefinedText ELSE item

\* getMemory: returns the stored profile, storing the default when none exists;
\* a failing store.get puts the default as well.
getMemory(st, ns, defaultContent, readOk) ==
  IF readOk
    THEN IF st[ns] # NoEntry
           THEN [value |-> memoryContent(st[ns]), st |-> st]
           ELSE [value |-> defaultContent, st |-> [st EXCEPT ![ns] = defaultContent]]
    ELSE [value |-> defaultContent, st |-> [st EXCEPT ![ns] = defaultContent]]

\* src/scripts/email_assistant_hitl_memory.ts stores { value: content } and
\* its getMemory returns userPreferences.value, the stored object itself
scriptsGetMemory(st, ns, defaultContent, readOk) ==
  IF readOk
    THEN IF st[ns] # NoEntry
           THEN [value |-> ("{ value: " \o st[ns] \o " }"), st |-> st]
           ELSE [value |-> defaultContent, st |-> [st EXCEPT ![ns] = defaultContent]]
    ELSE [value |-> defaultContent, st |-> [st EXCEPT ![ns] = defaultContent]]

\* updateMemory: one LLM call, then store.put of result.preferences; every
\* exception is swallowed.
updateMemory_KeepsExisting(st, ns, llmResult) ==
  IF llmResult = LlmFails \/ st[ns] # NoEntry THEN st
  ELSE [st EXCEPT ![ns] = llmResult]

updateMemory(st, ns, llmResult) ==
  IF llmResult = LlmFails THEN st ELSE [st EXCEPT ![ns] = llmResult]

\* Calls of getMemory and updateMemory in flight on the shared store, one per
\* workflow thread: the function, the await it has passed, the namespace,
\* the item store.get returned and the profile the LLM produced.
Threads == {"thread-1", "thread-2"}
IdleCall == [fn |-> "none", stage |-> "idle", ns |-> "", read |-> NoEntry,
             result |-> ""]
NoInflight == [t \in Threads |-> IdleCall]

\* record of the last direct call of a function of the assistant
NoFnCall == [op |-> "none", ns |-> "", before |-> [ns \in Namespaces |-> NoEntry],
             readOk |-> TRUE, llmResult |-> "", value |-> "", msgs |-> <<>>,
             result |-> "", text |-> <<>>]

(***************************************************************************)
(* Graph runtime (LangGraph): a Command's goto adds destinations to the    *)
(* node's static and conditional edges; END contributes nothing.  An       *)
(* interrupt() aborts the running node without applying its update and     *)
(* suspends the thread; on resume the node re-executes from its start and  *)
(* the k-th interrupt() call returns the k-th resume value.                *)
(***************************************************************************)
NodeOf(dest) == IF dest = "response_agent" THEN "llm_call" ELSE dest

Route(dests) ==
  IF dests \ {END} = {} THEN END
  ELSE NodeOf(CHOOSE d \in dests \ {END} : TRUE)

NoCommand == [node |-> "none", goto |-> END, edge |-> END, messages |-> <<>>]
NoAnswer == [type |-> "<none>", args |-> Undefined]
NoCall == [name |-> "<none>", args |-> Undefined, id |-> NoId]
\* record of the last node execution: the human answer it consumed, the tool
\* call it acted on, and the effects of the node's task, over the executions
\* the task has had so far (one per interrupt it ran into, plus the last)
NoRun == [node |-> "none", status |-> "none", answer |-> NoAnswer,
          call |-> NoCall, calls |-> <<>>, invoked |-> <<>>, memUpdates |-> <<>>,
          turnInvoked |-> <<>>, turnRequests |-> <<>>,
          failed |-> <<>>, caught |-> FALSE, reply |-> <<>>, prompt |-> <<>>]

(***************************************************************************)
(* triage_router                                                           *)
(***************************************************************************)
TriageWords == {"respond", "Notify", "ignore", "thanks"}

toLowerCase(text) ==
  [i \in 1..Len(text) |-> IF text[i] = "Notify" THEN "notify" ELSE text[i]]

TriageTexts == UNION {[1..n -> TriageWords] : n \in 0..MaxReplyWords}
TriageReplies ==
  {[threw |-> FALSE, content |-> c] : c \in TriageTexts}
    \cup {[threw |-> TRUE, content |-> <<>>]}

classify_NotifyFirst(content) ==
  LET responseText == toLowerCase(content)
  IN IF Includes(responseText, "notify") THEN "notify"
     ELSE IF Includes(responseText, "respond") THEN "respond"
     ELSE IF Includes(responseText, "ignore") THEN "ignore"
     ELSE "notify"

classify_NoDefault(content) ==
  LET responseText == toLowerCase(content)
  IN IF Includes(responseText, "respond") THEN "respond"
     ELSE IF Includes(responseText, "notify") THEN "notify"
     ELSE IF Includes(responseText, "ignore") THEN "ignore"
     ELSE "unknown"

\* classification extracted from the reply text, fixed precedence
classify(content) ==
  LET responseText == toLowerCase(content)
  IN IF Includes(responseText, "respond") THEN "respond"
     ELSE IF Includes(responseText, "notify") THEN "notify"
     ELSE IF Includes(responseText, "ignore") THEN "ignore"
     ELSE "notify"

\* goto chosen by triageRouterNode for a classification
triageGoto(classification) ==
  IF classification = "respond" THEN "response_agent"
  ELSE IF classification = "notify" THEN "triage_interrupt_handler"
  ELSE END

triageRouterEdge_NotifyEnds(classification) ==
  IF classification = "respond" THEN "response_agent" ELSE END

\* conditional edge of emailAssistantGraph from triage_router
triageRouterEdge(classification) ==
  IF classification = "respond" THEN "response_agent"
  ELSE IF classification = "notify" THEN "triage_interrupt_handler"
  ELSE END

triageErrorDecision_Notify(v) == "notify"

\* classification_decision set by the catch block of triageRouterNode
triageErrorDecision(v) == IF v = "basic" THEN "ignore" ELSE "error"

\* prefix of the system message built by the catch block
triageErrorText(v) ==
  IF v = "basic" THEN "Error processing email: " ELSE "Error in triage router: "

\* the Command returned by triageRouterNode and the store it leaves behind
triageRouterCommand(v, email, reply, st) ==
  LET p == parseEmail(email)
      mem == IF v = "memory" /\ ~p.threw
               THEN getMemory(st, "triage_preferences",
                              DefaultProfile("triage_preferences"), TRUE).st
               ELSE st
      classification == classify(reply.content)
  IN IF p.threw \/ reply.threw
       THEN [goto |-> END, classification_decision |-> triageErrorDecision(v),
             messages |-> <<SystemMessage(<<triageErrorText(v),
                              IF p.threw THEN "Failed to parse email"
                                         ELSE "llm error">>)>>,
             st |-> mem, caught |-> TRUE]
       ELSE [goto |-> triageGoto(classification),
             classification_decision |-> classification,
             messages |-> IF classification = "respond"
                            THEN <<HumanMessage(<<"Respond to the email: ">>
                                                 \o EmailMarkdown(email))>>
                            ELSE <<>>,
             st |-> mem, caught |-> FALSE]

triageRouterNode ==
  /\ variant \in {"hitl", "memory"}
  /\ pc = "triage_router"
  /\ pending = {}
  /\ steps < MaxSteps
  /\ \E reply \in TriageReplies :
       LET cmd == triageRouterCommand(variant, email_input, reply, store)
           edge == triageRouterEdge(cmd.classification_decision)
       IN /\ classification_decision' = cmd.classification_decision
          /\ messages' = messages \o cmd.messages
          /\ store' = cmd.st
          /\ pc' = Route({cmd.goto, edge})
          /\ lastCommand' = [node |-> "triage_router", goto |-> cmd.goto,
                             edge |-> edge, messages |-> cmd.messages]
          /\ lastRun' = [NoRun EXCEPT !.node = "triage_router",
                                      !.status = "returned",
                                      !.caught = cmd.caught,
                                      !.reply = reply.content]
  /\ steps' = steps + 1
  /\ UNCHANGED <<inflight, lastCall, variant, email_input, pending, resumes, toolLog, memLog,
                 interruptLog>>

(***************************************************************************)
(* Human answers supplied on resume: Command({resume: [answer]})           *)
(***************************************************************************)
Answer(type, args) == [type |-> type, args |-> args]
\* answers tried at the triage interrupt
TriageAnswers ==
  { Answer("accept", Undefined),
    Answer("ignore", Undefined),
    Answer("response", Str("please use a formal tone")),
    Answer("response", Str("")) }

\* answers tried at a tool-call interrupt
ToolAnswers ==
  { Answer("accept", Undefined),
    Answer("ignore", Undefined),
    Answer("response", Str("please use a formal tone")),
    Answer("edit", Obj("edited")),
    Answer("edit", Obj("request_edited")),
    Answer("reject", Str("not available next week")) }

Answers == TriageAnswers \cup ToolAnswers

AnswersFor(request) ==
  IF request.node = "triage_interrupt_handler" THEN TriageAnswers ELSE ToolAnswers

\* interrupt(request)[0] in a node whose task holds the resume values rs and
\* has called interrupt() k times before: the next resume value, or suspension
interrupt_Swallowed(rs, k) ==
  IF k < Len(rs) THEN [suspend |-> FALSE, value |-> rs[k + 1]]
  ELSE [suspend |-> FALSE, value |-> Answer("ignore", Undefined)]

interrupt(rs, k) ==
  IF k < Len(rs) THEN [suspend |-> FALSE, value |-> rs[k + 1]]
  ELSE [suspend |-> TRUE, value |-> NoAnswer]

HumanResume ==
  /\ pending # {}
  /\ \E request \in pending : \E answer \in AnswersFor(request) :
       resumes' = Append(resumes, answer)
  /\ pending' = {}
  /\ UNCHANGED <<inflight, lastCall, variant, email_input, messages, classification_decision, pc,
                 toolLog, store, memLog, steps, lastCommand, lastRun,
                 interruptLog>>

(***************************************************************************)
(* triage_interrupt_handler                                                *)
(***************************************************************************)
triageInterruptRequest(email, decision) ==
  [node |-> "triage_interrupt_handler",
   action |-> <<"Email requires attention: ", decision>>,
   args |-> Obj("empty"),
   name |-> "<triage>", id |-> NoId]

\* the Command returned once the human review is available
triageInterruptCommand(v, email, humanReview, st, llmResult) ==
  LET initialMessages ==
        <<HumanMessage(<<"Email to notify user about: ">> \o EmailMarkdown(email))>>
      reviewAction == humanReview.type
      reviewData == humanReview.args
  IN IF reviewAction = "response" /\ Truthy(reviewData)
       THEN [goto |-> "response_agent",
             messages |-> Append(initialMessages,
                HumanMessage(<<"User wants to reply to the email",
                               ". Use this feedback to respond: ", reviewData.v>>)),
             st |-> IF v = "memory"
                      THEN updateMemory(st, "triage_preferences", llmResult)
                      ELSE st,
             memUpdates |-> IF v = "memory" THEN <<"triage_preferences">> ELSE <<>>]
     ELSE IF reviewAction = "ignore"
       THEN [goto |-> END,
             messages |-> initialMessages,
             st |-> IF v = "memory"
                      THEN updateMemory(st, "triage_preferences", llmResult)
                      ELSE st,
             memUpdates |-> IF v = "memory" THEN <<"triage_preferences">> ELSE <<>>]
     ELSE [goto |-> END,
           messages |-> Append(initialMessages,
              SystemMessage(<<"Unhandled review action: ", reviewAction,
                              ". Ending triage.">>)),
           st |-> st,
           memUpdates |-> <<>>]

triageInterruptEdge_BackToTriage(msgs) ==
  IF Len(msgs) = 0 THEN END
  ELSE IF Includes(msgs[Len(msgs)].content, ReplyPhrase) THEN "response_agent"
  ELSE "triage_router"

\* conditional edge of emailAssistantGraph from triage_interrupt_handler
triageInterruptEdge(msgs) ==
  IF Len(msgs) = 0 THEN END
  ELSE IF Includes(msgs[Len(msgs)].content, ReplyPhrase) THEN "response_agent"
  ELSE END

triageInterruptHandlerNode ==
  /\ pc = "triage_interrupt_handler"
  /\ pending = {}
  /\ steps < MaxSteps
  /\ IF interrupt(resumes, 0).suspend
       THEN \* interrupt(): the node is aborted and the thread suspends
            LET req == triageInterruptRequest(email_input, classification_decision)
            IN /\ pending' = {req}
               /\ interruptLog' = Append(interruptLog, req)
               /\ lastRun' = [NoRun EXCEPT !.node = "triage_interrupt_handler",
                                           !.status = "interrupted",
                                           !.turnRequests = <<req>>]
               /\ UNCHANGED <<messages, store, memLog, pc, lastCommand, resumes>>
       ELSE \E llmResult \in LearnedProfiles \cup {LlmFails} :
            LET cmd == triageInterruptCommand(variant, email_input,
                                              interrupt(resumes, 0).value,
                                              store, llmResult)
                edge == triageInterruptEdge(messages \o cmd.messages)
            IN /\ messages' = messages \o cmd.messages
               /\ store' = cmd.st
               /\ memLog' = memLog \o cmd.memUpdates
               /\ pc' = Route({cmd.goto, edge})
               /\ resumes' = <<>>
               /\ lastCommand' = [node |-> "triage_interrupt_handler",
                                  goto |-> cmd.goto, edge |-> edge,
                                  messages |-> cmd.messages]
               /\ lastRun' = [NoRun EXCEPT !.node = "triage_interrupt_handler",
                                           !.status = "returned",
                                           !.answer = interrupt(resumes, 0).value,
                                           !.memUpdates = cmd.memUpdates,
                                           !.turnRequests = lastRun.turnRequests]
               /\ UNCHANGED <<pending, interruptLog>>
  /\ steps' = steps + 1
  /\ UNCHANGED <<inflight, lastCall, variant, email_input, classification_decision, toolLog>>

(***************************************************************************)
(* response_agent subgraph: llm_call                                       *)
(***************************************************************************)
ToolCall(name, id) == [name |-> name, args |-> Obj("proposed"), id |-> id]

FirstCallNames == {"write_email", "schedule_meeting", "question",
                   "check_calendar_availability", "Done", "search"}
SecondCalls == {ToolCall("schedule_meeting", "call_2"),
                ToolCall("schedule_meeting", "call_1")}

\* tool-call lists an LLM reply may carry
ToolCallLists ==
  {<<>>}
    \cup {<<ToolCall(n, "call_1")>> : n \in FirstCallNames}
    \cup {<<ToolCall("write_email", NoId)>>}
    \cup {<<ToolCall("write_email", "call_1"), c>> : c \in SecondCalls}
    \cup {<<ToolCall("check_calendar_availability", "call_1"),
             ToolCall("write_email", "call_2")>>,
           <<ToolCall("write_email", "call_1"), ToolCall("Done", "call_2")>>}

AgentReplies ==
  {[threw |-> FALSE, tool_calls |-> l] : l \in ToolCallLists}
    \cup {[threw |-> TRUE, tool_calls |-> <<>>]}

hasToolCalls(message) == message.role = "ai" /\ Len(message.tool_calls) > 0

shouldContinue_AnyAi(msgs) ==
  IF Len(msgs) = 0 THEN END
  ELSE IF msgs[Len(msgs)].role = "ai" THEN "interrupt_handler" ELSE END

shouldContinue_IgnoresDone(msgs) ==
  IF Len(msgs) = 0 THEN END
  ELSE IF hasToolCalls(msgs[Len(msgs)]) THEN "interrupt_handler" ELSE END

\* conditional edge of the response agent after llm_call
shouldContinue(msgs) ==
  IF Len(msgs) = 0 THEN END
  ELSE LET lastMessage == msgs[Len(msgs)]
       IN IF hasToolCalls(lastMessage)
            THEN IF \E i \in 1..Len(lastMessage.tool_calls) :
                       lastMessage.tool_calls[i].name = "Done"
                   THEN END
                   ELSE "interrupt_handler"
            ELSE END

\* the update returned by llmCallNode
llmCallUpdate(reply) ==
  IF reply.threw
    THEN <<AIMessage(<<"Error calling model: ", "llm error">>, <<>>)>>
    ELSE <<AIMessage(<<"assistant reply">>, reply.tool_calls)>>

\* the store after llmCallNode read its two profiles (memory assistant)
llmCallStore(v, st) ==
  IF v = "memory"
    THEN getMemory(
           getMemory(st, "cal_preferences",
                     DefaultProfile("cal_preferences"), TRUE).st,
           "response_preferences", DefaultProfile("response_preferences"),
           TRUE).st
    ELSE st

\* the profiles llmCallNode substitutes into its system prompt: the memory
\* assistant reads both with getMemory, the HITL assistant uses the default
llmCallPrompt(v, st) ==
  IF v = "memory"
    THEN LET cal == getMemory(st, "cal_preferences",
                              DefaultProfile("cal_preferences"), TRUE)
             response == getMemory(cal.st, "response_preferences",
                                   DefaultProfile("response_preferences"), TRUE)
         IN [cal_preferences |-> cal.value,
             response_preferences |-> response.value]
    ELSE [response_preferences |-> DefaultProfile("response_preferences")]

llmCallNode ==
  /\ variant \in {"hitl", "memory"}
  /\ pc = "llm_call"
  /\ pending = {}
  /\ steps < MaxSteps
  /\ \E reply \in AgentReplies :
       LET update == llmCallUpdate(reply)
           edge == shouldContinue(messages \o update)
       IN /\ messages' = messages \o update
          /\ pc' = Route({edge})
          /\ lastCommand' = [node |-> "llm_call", goto |-> END, edge |-> edge,
                             messages |-> update]
          /\ lastRun' = [NoRun EXCEPT !.node = "llm_call", !.status = "returned",
                                      !.caught = reply.threw,
                                      !.prompt = llmCallPrompt(variant, store)]
  /\ store' = llmCallStore(variant, store)
  /\ steps' = steps + 1
  /\ UNCHANGED <<inflight, lastCall, variant, email_input, classification_decision, pending,
                 resumes, toolLog, memLog, interruptLog>>

(***************************************************************************)
(* response_agent subgraph: interrupt_handler                              *)
(***************************************************************************)
hitlTools == {"write_email", "schedule_meeting", "question"}

\* registry of getToolsByName (src/lib/tools/base.ts)
toolsByName == {"write_email", "triage_email", "Done", "schedule_meeting",
                "check_calendar_availability"}

\* toolCall.id ?? `fallback-id-${Date.now()}`
callIdOf(tc, now) == IF tc.id = NoId THEN "fallback-id-" \o now ELSE tc.id

\* typeof args === "string" ? JSON.parse(args) : args
parsedArgs(args) == IF args.t = "string" THEN Obj(args.v) ELSE args

\* the zod schema of a structured tool accepts an object of the tool's shape
ValidArgs(args) == args.t = "object" /\ args.v \in {"proposed", "edited"}

\* tool.invoke(args) returns an observation unless validation or the tool fails
ToolReturns(args, toolOk) == toolOk /\ ValidArgs(args)

Observation(name, args) == <<"observation of ", name, args.v>>

Invocation(name, args, callId) == [name |-> name, args |-> args, callId |-> callId]

NoRequest == [node |-> "none", action |-> <<>>, args |-> Undefined,
              name |-> "<none>", id |-> NoId]

\* interrupt payload of interruptHandlerNode
toolInterruptRequest(tc, callId) ==
  [node |-> "interrupt_handler",
   action |-> <<"Review this ", tc.name, " action:">>,
   args |-> tc.args,
   name |-> tc.name, id |-> callId]

reviewBranch_UnknownAccepts(reviewAction, reviewData) ==
  IF reviewAction = "response" /\ reviewData.t = "string" THEN "response"
  ELSE IF reviewAction = "edit" /\ reviewData.t = "object" THEN "edit"
  ELSE IF reviewAction = "ignore" THEN "ignore"
  ELSE "accept"

reviewBranch_ResponseAccepts(reviewAction, reviewData) ==
  IF reviewAction \in {"response", "accept"} THEN "accept"
  ELSE IF reviewAction = "edit" /\ reviewData.t = "object" THEN "edit"
  ELSE IF reviewAction = "ignore" THEN "ignore"
  ELSE "unhandled"

reviewBranch_AcceptIgnores(reviewAction, reviewData) ==
  IF reviewAction = "response" /\ reviewData.t = "string" THEN "response"
  ELSE IF reviewAction = "edit" /\ reviewData.t = "object" THEN "edit"
  ELSE IF reviewAction \in {"ignore", "accept"} THEN "ignore"
  ELSE "unhandled"

\* which branch of the handler a human review selects
reviewBranch(reviewAction, reviewData) ==
  IF reviewAction = "response" /\ reviewData.t = "string" THEN "response"
  ELSE IF reviewAction = "accept" THEN "accept"
  ELSE IF reviewAction = "edit" /\ reviewData.t = "object" THEN "edit"
  ELSE IF reviewAction = "ignore" THEN "ignore"
  ELSE "unhandled"

loopBreak_Never(processedOneToolCall) == FALSE

\* `if (processedOneToolCall) break;`
loopBreak(processedOneToolCall) == processedOneToolCall

\* result.push(message); processedToolCallIds.add(callId); processedOneToolCall = true
Processed(acc, message, callId) ==
  [acc EXCEPT !.result = Append(@, message),
              !.processed = @ \cup {callId},
              !.processedOne = TRUE]

Threw(acc) == [acc EXCEPT !.status = "threw"]

Invoked(acc, name, args, callId) ==
  [acc EXCEPT !.invoked = Append(@, Invocation(name, args, callId))]

\* tool.invoke threw for the call with this id
Failed(acc, callId) == [acc EXCEPT !.failed = Append(@, callId)]

MemoryUpdated_Propagates(acc, ns, llmResult) ==
  IF llmResult = LlmFails
    THEN [acc EXCEPT !.memUpdates = Append(@, ns), !.status = "threw"]
    ELSE [acc EXCEPT !.st = updateMemory(@, ns, llmResult),
                     !.memUpdates = Append(@, ns)]

\* await updateMemory(store, namespace, messages) inside interruptHandlerNode
MemoryUpdated(acc, ns, llmResult) ==
  [acc EXCEPT !.st = updateMemory(@, ns, llmResult),
              !.memUpdates = Append(@, ns)]

\* a tool that is not in the HITL list is executed without interruption
executeDirectly(acc, tc, callId, env) ==
  IF tc.name \notin toolsByName
    THEN Processed(acc, ToolMessage(<<"Error: Tool ", tc.name, " not found">>, callId),
                   callId)
    ELSE LET args == parsedArgs(tc.args)
             inv == Invoked(acc, tc.name, args, callId)
         IN IF ToolReturns(args, env.toolOk)
              THEN Processed(inv, ToolMessage(Observation(tc.name, args), callId), callId)
              ELSE Processed(Failed(inv, callId),
                             ToolMessage(<<"Error executing tool: ", "tool error">>,
                                         callId), callId)

\* tool.invoke(args) outside any try block, then the tool message
invokeUnguarded(acc, tc, args, callId, env) ==
  IF tc.name \notin toolsByName
    THEN Threw(acc)
    ELSE LET inv == Invoked(acc, tc.name, args, callId)
         IN IF ToolReturns(args, env.toolOk)
              THEN Processed(inv, ToolMessage(Observation(tc.name, args), callId), callId)
              ELSE Threw(Failed(inv, callId))

acceptArgs_Empty(tc) == Obj("edited")

\* arguments the accept branch passes to tool.invoke
acceptArgs(tc) == parsedArgs(tc.args)

\* arguments the edit branch passes to tool.invoke
editArgs(v, reviewData) == IF v = "memory" THEN Field_args(reviewData) ELSE reviewData

feedbackText(name) ==
  IF name = "write_email"
    THEN "User gave feedback, which can we incorporate into the email. Feedback: "
  ELSE IF name = "schedule_meeting"
    THEN "User gave feedback, which can we incorporate into the meeting request. Feedback: "
  ELSE "User answered the question, which can we can use for any follow up actions. Feedback: "

\* src/src/email_assistant_hitl.ts: branches after interrupt() returned
hitlReview(acc, tc, callId, humanReview, env) ==
  LET reviewAction == humanReview.type
      reviewData == humanReview.args
      branch == reviewBranch(reviewAction, reviewData)
  IN IF branch = "response"
       THEN Processed(acc, ToolMessage(<<feedbackText(tc.name), reviewData.v>>, callId),
                      callId)
     ELSE IF branch = "accept"
       THEN invokeUnguarded(acc, tc, acceptArgs(tc), callId, env)
     ELSE IF branch = "edit"
       THEN invokeUnguarded(acc, tc, editArgs("hitl", reviewData), callId, env)
     ELSE IF branch = "ignore"
       THEN [Processed(acc, ToolMessage(<<"User chose to ignore this ", tc.name,
                                          " action.">>, callId), callId)
               EXCEPT !.goto = END]
     ELSE Processed(acc, ToolMessage(<<"Unhandled review action: ", reviewAction>>,
                                     callId), callId)

\* namespace updated when feedback is given on a tool call (memory assistant)
responseNamespace(name) == "response_preferences"

\* namespace updated when a tool call is edited (memory assistant)
editNamespace(name) ==
  IF name = "write_email" THEN "response_preferences" ELSE "cal_preferences"

ignoredText(name) ==
  IF name = "write_email"
    THEN "User ignored this email draft. Ignore this email and end the workflow."
  ELSE IF name = "schedule_meeting"
    THEN "User ignored this calendar meeting draft. Ignore this email and end the workflow."
  ELSE "User ignored this question. Ignore this email and end the workflow."

editedCalls_AllCalls(calls, callId, newArgs) ==
  [i \in 1..Len(calls) |-> [calls[i] EXCEPT !.args = newArgs]]

\* lastMessage.tool_calls after the edit branch replaced the edited call's args
editedCalls(calls, callId, newArgs) ==
  [i \in 1..Len(calls) |->
     IF calls[i].id = callId THEN [calls[i] EXCEPT !.args = newArgs] ELSE calls[i]]

\* src/unnamed/part_001: branches after interrupt() returned
memoryReview(acc, tc, callId, humanReview, env) ==
  LET reviewAction == humanReview.type
      reviewData == humanReview.args
      branch == reviewBranch(reviewAction, reviewData)
  IN IF branch = "response"
       THEN LET pushed == [acc EXCEPT !.result =
                             Append(@, ToolMessage(<<feedbackText(tc.name), reviewData.v>>,
                                                   tc.id))]
                updated == IF tc.name \in {"write_email", "schedule_meeting"}
                             THEN MemoryUpdated(pushed, responseNamespace(tc.name),
                                                env.llmResult)
                             ELSE pushed
            IN [updated EXCEPT !.processed = @ \cup {callId}, !.processedOne = TRUE]
     ELSE IF branch = "accept"
       THEN LET done == invokeUnguarded(acc, tc, acceptArgs(tc), callId, env)
            IN IF done.status = "running" /\ tc.name = "write_email"
                 THEN [done EXCEPT !.goto = END]
                 ELSE done
     ELSE IF branch = "edit"
       THEN LET newArgs == editArgs("memory", reviewData)
                mutated == [acc EXCEPT !.calls = editedCalls(@, callId, newArgs)]
                done == invokeUnguarded(mutated, tc, newArgs, callId, env)
            IN IF done.status = "running"
                    /\ tc.name \in {"write_email", "schedule_meeting"}
                 THEN MemoryUpdated(done, editNamespace(tc.name), env.llmResult)
                 ELSE done
     ELSE IF branch = "ignore"
       THEN [MemoryUpdated(
               Processed(acc, ToolMessage(<<ignoredText(tc.name)>>, callId), callId),
               "triage_preferences", env.llmResult)
               EXCEPT !.goto = END]
     ELSE Processed(acc, ToolMessage(<<"Unhandled review action: ", reviewAction>>,
                                     callId), callId)

\* one iteration of the loop over lastMessage.tool_calls
handleToolCall(acc, tc, env) ==
  LET callId == callIdOf(tc, "t0")
  IN IF tc.name \notin hitlTools
       THEN executeDirectly(acc, tc, callId, env)
     ELSE IF parseEmail(env.email).threw
       THEN Threw(acc)
     ELSE IF ~interrupt(env.rs, acc.k).suspend
       THEN \* interrupt() returns the resume value
            LET humanReview == interrupt(env.rs, acc.k).value
                resumed == [acc EXCEPT !.k = @ + 1, !.answer = humanReview, !.call = tc]
            IN IF env.v = "memory"
                 THEN memoryReview(resumed, tc, callId, humanReview, env)
                 ELSE hitlReview(resumed, tc, callId, humanReview, env)
     ELSE \* interrupt() suspends the graph
          [acc EXCEPT !.status = "interrupted", !.call = tc,
                      !.request = toolInterruptRequest(tc, callId)]

RECURSIVE toolCallLoop(_, _, _)
toolCallLoop(acc, i, env) ==
  IF i > Len(acc.calls) \/ acc.status # "running" \/ loopBreak(acc.processedOne)
    THEN acc
    ELSE toolCallLoop(handleToolCall(acc, acc.calls[i], env), i + 1, env)

needsFallback_Never(processedToolCallIds, tc_callId) == FALSE

\* whether the fallback loop adds a placeholder for a tool call id
needsFallback(processedToolCallIds, tc_callId) == tc_callId \notin processedToolCallIds

\* placeholders for the tool calls not processed in this turn
fallbackResponses(acc, now) ==
  LET rest == SelectSeq(acc.calls,
                        LAMBDA tc : needsFallback(acc.processed, callIdOf(tc, now)))
  IN [i \in 1..Len(rest) |->
        ToolMessage(<<"Tool execution deferred or pending subsequent review step.">>,
                    callIdOf(rest[i], now))]

\* state.messages after the node assigned lastMessage.tool_calls: lastMessage
\* is the object held by the transcript, so the assignment shows in it
withToolCalls(msgs, calls) ==
  IF msgs = <<>> THEN msgs
  ELSE [msgs EXCEPT ![Len(msgs)].tool_calls = calls]

\* one execution of interruptHandlerNode from its start
interruptHandlerRun(v, email, msgs, rs, st, toolOk, llmResult, now) ==
  LET lastMessage == msgs[Len(msgs)]
      env == [v |-> v, email |-> email, rs |-> rs, toolOk |-> toolOk,
              llmResult |-> llmResult]
      start == [result |-> <<>>, processed |-> {}, processedOne |-> FALSE,
                goto |-> "llm_call", invoked |-> <<>>, st |-> st,
                memUpdates |-> <<>>, failed |-> <<>>, status |-> "running", k |-> 0,
                request |-> NoRequest, answer |-> NoAnswer, call |-> NoCall,
                calls |-> lastMessage.tool_calls]
  IN IF ~hasToolCalls(lastMessage)
       THEN start
       ELSE LET looped == toolCallLoop(start, 1, env)
            IN IF looped.status = "running"
                 THEN [looped EXCEPT !.result = @ \o fallbackResponses(looped, now)]
                 ELSE looped

interruptHandlerNode ==
  /\ pc = "interrupt_handler"
  /\ pending = {}
  /\ steps < MaxSteps
  /\ \E toolOk \in BOOLEAN, llmResult \in LearnedProfiles \cup {LlmFails},
        now \in {"t0", "t1"} :
       LET run == interruptHandlerRun(variant, email_input, messages, resumes, store,
                                      toolOk, llmResult, now)
       IN /\ toolLog' = toolLog \o run.invoked
          /\ store' = run.st
          /\ memLog' = memLog \o run.memUpdates
          /\ lastRun' = [node |-> "interrupt_handler",
                         status |-> IF run.status = "running" THEN "returned"
                                    ELSE run.status,
                         answer |-> run.answer, call |-> run.call,
                         calls |-> messages[Len(messages)].tool_calls,
                         invoked |-> run.invoked, memUpdates |-> run.memUpdates,
                         failed |-> run.failed, caught |-> FALSE, reply |-> <<>>,
                         prompt |-> <<>>,
                         turnInvoked |->
                           (IF resumes = <<>> THEN <<>> ELSE lastRun.turnInvoked)
                             \o run.invoked,
                         turnRequests |->
                           (IF resumes = <<>> THEN <<>> ELSE lastRun.turnRequests)
                             \o (IF run.status = "interrupted"
                                   THEN <<run.request>> ELSE <<>>)]
          /\ IF run.status = "interrupted"
               THEN /\ pending' = {run.request}
                    /\ interruptLog' = Append(interruptLog, run.request)
                    /\ UNCHANGED <<messages, pc, resumes, lastCommand>>
             ELSE IF run.status = "threw"
               THEN /\ pc' = "failed"
                    /\ resumes' = <<>>
                    /\ UNCHANGED <<messages, pending, interruptLog, lastCommand>>
             ELSE /\ messages' = withToolCalls(messages, run.calls) \o run.result
                  /\ pc' = Route({run.goto, "llm_call"})
                  /\ resumes' = <<>>
                  /\ lastCommand' = [node |-> "interrupt_handler", goto |-> run.goto,
                                     edge |-> "llm_call", messages |-> run.result]
                  /\ UNCHANGED <<pending, interruptLog>>
  /\ steps' = steps + 1
  /\ UNCHANGED <<inflight, lastCall, variant, email_input, classification_decision>>

(***************************************************************************)
(* Basic assistant (src/unnamed/part_004): triage_router, then the         *)
(* response agent llm_call <-> environment (a prebuilt ToolNode).  There   *)
(* is no interrupt and no conditional edge from triage_router: the         *)
(* Command's goto alone decides.                                           *)
(***************************************************************************)
basicTriageGoto_NotifyResponds(classification) ==
  IF classification \in {"respond", "notify"} THEN "response_agent" ELSE END

\* goto chosen by the basic triageRouterNode for a classification
basicTriageGoto(classification) ==
  IF classification = "respond" THEN "response_agent" ELSE END

\* the Command returned by the basic triageRouterNode
basicTriageRouterCommand(email, reply) ==
  LET p == parseEmail(email)
      classification == classify(reply.content)
  IN IF p.threw \/ reply.threw
       THEN [goto |-> END, classification_decision |-> triageErrorDecision("basic"),
             messages |-> <<SystemMessage(<<triageErrorText("basic"),
                              IF p.threw THEN "Failed to parse email"
                                         ELSE "llm error">>)>>,
             caught |-> TRUE]
       ELSE [goto |-> basicTriageGoto(classification),
             classification_decision |-> classification,
             messages |-> IF classification = "respond"
                            THEN <<HumanMessage(<<"Respond to the email: ">>
                                                 \o EmailMarkdown(email))>>
                            ELSE <<>>,
             caught |-> FALSE]

basicTriageRouterNode ==
  /\ variant = "basic"
  /\ pc = "triage_router"
  /\ steps < MaxSteps
  /\ \E reply \in TriageReplies :
       LET cmd == basicTriageRouterCommand(email_input, reply)
       IN /\ classification_decision' = cmd.classification_decision
          /\ messages' = messages \o cmd.messages
          /\ pc' = Route({cmd.goto})
          /\ lastCommand' = [node |-> "triage_router", goto |-> cmd.goto,
                             edge |-> END, messages |-> cmd.messages]
          /\ lastRun' = [NoRun EXCEPT !.node = "triage_router",
                                      !.status = "returned",
                                      !.caught = cmd.caught,
                                      !.reply = reply.content]
  /\ steps' = steps + 1
  /\ UNCHANGED <<inflight, lastCall, variant, email_input, pending, resumes, toolLog, store, memLog,
                 interruptLog>>

\* tool-call lists tried as replies of the basic assistant's LLM
BasicToolCallLists ==
  { <<>>,
    <<ToolCall("write_email", "call_1")>>,
    <<ToolCall("Done", "call_1")>>,
    <<ToolCall("search", "call_1")>>,
    <<ToolCall("write_email", "call_1"), ToolCall("schedule_meeting", "call_2")>>,
    <<ToolCall("write_email", "call_1"), ToolCall("Done", "call_2")>> }

BasicAgentReplies ==
  {[threw |-> FALSE, tool_calls |-> l] : l \in BasicToolCallLists}
    \cup {[threw |-> TRUE, tool_calls |-> <<>>]}

\* conditional edge of the basic response agent after llm_call
basicShouldContinue(msgs) ==
  IF Len(msgs) = 0 THEN END
  ELSE LET lastMessage == msgs[Len(msgs)]
       IN IF hasToolCalls(lastMessage)
            THEN IF \E i \in 1..Len(lastMessage.tool_calls) :
                       lastMessage.tool_calls[i].name = "Done"
                   THEN END
                   ELSE "environment"
            ELSE END

\* the basic llmCallNode has no try block: a failing LLM call fails the run
basicLlmCallNode ==
  /\ variant = "basic"
  /\ pc = "llm_call"
  /\ steps < MaxSteps
  /\ \E reply \in BasicAgentReplies :
       IF reply.threw
         THEN /\ pc' = "failed"
              /\ lastRun' = [NoRun EXCEPT !.node = "llm_call", !.status = "threw"]
              /\ UNCHANGED <<messages, lastCommand>>
         ELSE LET update == <<AIMessage(<<"assistant reply">>, reply.tool_calls)>>
                  edge == basicShouldContinue(messages \o update)
              IN /\ messages' = messages \o update
                 /\ pc' = Route({edge})
                 /\ lastCommand' = [node |-> "llm_call", goto |-> END,
                                    edge |-> edge, messages |-> update]
                 /\ lastRun' = [NoRun EXCEPT !.node = "llm_call",
                                             !.status = "returned"]
  /\ steps' = steps + 1
  /\ UNCHANGED <<inflight, lastCall, variant, email_input, classification_decision, pending,
                 resumes, toolLog, store, memLog, interruptLog>>

\* ToolNode: every tool call of the last AI message is run; an unknown tool
\* or a failing tool yields an error tool message for that call
toolNodeMessage(tc, toolOk) ==
  IF tc.name \in toolsByName /\ ToolReturns(parsedArgs(tc.args), toolOk)
    THEN ToolMessage(Observation(tc.name, parsedArgs(tc.args)), tc.id)
    ELSE ToolMessage(<<"Error: ", "tool error", " Please fix your mistakes.">>, tc.id)

toolNodeInvocations(calls) ==
  LET known == SelectSeq(calls, LAMBDA tc : tc.name \in toolsByName)
  IN [i \in 1..Len(known) |->
        Invocation(known[i].name, parsedArgs(known[i].args), known[i].id)]

toolNode ==
  /\ variant = "basic"
  /\ pc = "environment"
  /\ steps < MaxSteps
  /\ \E toolOk \in BOOLEAN :
       LET calls == messages[Len(messages)].tool_calls
           update == [i \in 1..Len(calls) |-> toolNodeMessage(calls[i], toolOk)]
       IN /\ messages' = messages \o update
          /\ toolLog' = toolLog \o toolNodeInvocations(calls)
          /\ lastCommand' = [node |-> "environment", goto |-> END,
                             edge |-> "llm_call", messages |-> update]
          /\ lastRun' = [NoRun EXCEPT !.node = "environment",
                                      !.status = "returned",
                                      !.calls = calls,
                                      !.invoked = toolNodeInvocations(calls)]
  /\ pc' = Route({"llm_call"})
  /\ steps' = steps + 1
  /\ UNCHANGED <<inflight, lastCall, variant, email_input, classification_decision, pending,
                 resumes, store, memLog, interruptLog>>

(***************************************************************************)
(* Specification                                                           *)
(***************************************************************************)
Init ==
  /\ variant \in {"hitl", "memory"}
  /\ email_input \in EmailInputs
  /\ messages = <<>>
  /\ classification_decision = "null"
  /\ pc = "triage_router"
  /\ pending = {}
  /\ resumes = <<>>
  /\ toolLog = <<>>
  /\ store = [ns \in Namespaces |-> NoEntry]
  /\ memLog = <<>>
  /\ steps = 0
  /\ lastCommand = NoCommand
  /\ lastRun = NoRun
  /\ interruptLog = <<>>
  /\ lastCall = NoFnCall
  /\ inflight = NoInflight

Next ==
  \/ triageRouterNode
  \/ triageInterruptHandlerNode
  \/ HumanResume
  \/ llmCallNode
  \/ interruptHandlerNode

Spec == Init /\ [][Next]_vars

\* the basic assistant alone
InitBasic ==
  /\ variant = "basic"
  /\ email_input \in EmailInputs
  /\ messages = <<>>
  /\ classification_decision = "null"
  /\ pc = "triage_router"
  /\ pending = {}
  /\ resumes = <<>>
  /\ toolLog = <<>>
  /\ store = [ns \in Namespaces |-> NoEntry]
  /\ memLog = <<>>
  /\ steps = 0
  /\ lastCommand = NoCommand
  /\ lastRun = NoRun
  /\ interruptLog = <<>>
  /\ lastCall = NoFnCall
  /\ inflight = NoInflight

NextBasic ==
  \/ basicTriageRouterNode
  \/ basicLlmCallNode
  \/ toolNode

SpecBasic == InitBasic /\ [][NextBasic]_vars

\* the three assistants side by side
InitAll == Init \/ InitBasic

NextAll ==
  \/ triageRouterNode
  \/ triageInterruptHandlerNode
  \/ HumanResume
  \/ llmCallNode
  \/ interruptHandlerNode
  \/ basicTriageRouterNode
  \/ basicLlmCallNode
  \/ toolNode

SpecAll == InitAll /\ [][NextAll]_vars

\* the memory assistant serving several threads: one compiled graph, one
\* store; a new thread starts from a fresh state while an earlier thread has
\* ended or waits for its human
NewThread ==
  /\ variant = "memory"
  /\ pc = END \/ pending # {}
  /\ steps < MaxSteps
  /\ email_input' \in EmailInputs
  /\ messages' = <<>>
  /\ classification_decision' = "null"
  /\ pc' = "triage_router"
  /\ pending' = {}
  /\ resumes' = <<>>
  /\ lastCommand' = NoCommand
  /\ lastRun' = NoRun
  /\ UNCHANGED <<inflight, lastCall, variant, toolLog, store, memLog, steps, interruptLog>>

\* a preference put into the store directly, before an email is processed
SeedStore ==
  /\ variant = "memory"
  /\ pc = "triage_router"
  /\ lastRun = NoRun
  /\ store["cal_preferences"] = NoEntry
  /\ store' = [store EXCEPT !["cal_preferences"] = ValueItem]
  /\ UNCHANGED <<inflight, lastCall, variant, email_input, messages, classification_decision,
                 pc, pending, resumes, toolLog, memLog, steps, lastCommand,
                 lastRun, interruptLog>>

InitThreads ==
  /\ variant = "memory"
  /\ email_input \in EmailInputs
  /\ messages = <<>>
  /\ classification_decision = "null"
  /\ pc = "triage_router"
  /\ pending = {}
  /\ resumes = <<>>
  /\ toolLog = <<>>
  /\ store = [ns \in Namespaces |-> NoEntry]
  /\ memLog = <<>>
  /\ steps = 0
  /\ lastCommand = NoCommand
  /\ lastRun = NoRun
  /\ interruptLog = <<>>
  /\ lastCall = NoFnCall
  /\ inflight = NoInflight

NextThreads ==
  \/ triageRouterNode
  \/ triageInterruptHandlerNode
  \/ HumanResume
  \/ llmCallNode
  \/ interruptHandlerNode
  \/ NewThread
  \/ SeedStore

SpecThreads == InitThreads /\ [][NextThreads]_vars

(***************************************************************************)
(* The functions of the assistants called on their own: getMemory and      *)
(* updateMemory on a store with any content, shouldContinue on any         *)
(* transcript.                                                             *)
(***************************************************************************)
MaxTranscript == 2

EarlierProfile == "earlier profile"

StoreInputs == [Namespaces -> {NoEntry, EarlierProfile}]

TranscriptMessages ==
  { HumanMessage(<<"Respond to the email: ">>),
    ToolMessage(<<"observation">>, "call_1"),
    AIMessage(<<"assistant reply">>, <<>>),
    AIMessage(<<"assistant reply">>, <<ToolCall("write_email", "call_1")>>),
    AIMessage(<<"assistant reply">>, <<ToolCall("Done", "call_1")>>),
    AIMessage(<<"assistant reply">>,
              <<ToolCall("write_email", "call_1"), ToolCall("Done", "call_2")>>) }

Transcripts == UNION {[1..n -> TranscriptMessages] : n \in 0..MaxTranscript}

\* a direct call leaves the graph state of the thread alone
CallFrame ==
  UNCHANGED <<inflight, variant, email_input, messages, classification_decision, pc,
              pending, resumes, toolLog, memLog, steps, lastCommand, lastRun,
              interruptLog>>

getMemoryCall ==
  /\ \E ns \in Namespaces, readOk \in BOOLEAN :
       LET r == getMemory(store, ns, DefaultProfile(ns), readOk)
       IN /\ store' = r.st
          /\ lastCall' = [NoFnCall EXCEPT !.op = "getMemory", !.ns = ns,
                                          !.before = store, !.readOk = readOk,
                                          !.value = r.value]
  /\ CallFrame

\* getMemory of the scripts implementation
scriptsGetMemoryCall ==
  /\ \E ns \in Namespaces, readOk \in BOOLEAN :
       LET r == scriptsGetMemory(store, ns, DefaultProfile(ns), readOk)
       IN /\ store' = r.st
          /\ lastCall' = [NoFnCall EXCEPT !.op = "scripts.getMemory", !.ns = ns,
                                          !.before = store, !.readOk = readOk,
                                          !.value = r.value]
  /\ CallFrame

updateMemoryCall ==
  /\ \E ns \in Namespaces, llmResult \in LearnedProfiles \cup {LlmFails} :
       /\ store' = updateMemory(store, ns, llmResult)
       /\ lastCall' = [NoFnCall EXCEPT !.op = "updateMemory", !.ns = ns,
                                       !.before = store, !.llmResult = llmResult]
  /\ CallFrame

shouldContinueCall ==
  /\ \E msgs \in Transcripts :
       lastCall' = [NoFnCall EXCEPT !.op = "shouldContinue", !.msgs = msgs,
                                   !.result = shouldContinue(msgs)]
  /\ store' = store
  /\ CallFrame

classifyCall ==
  /\ \E content \in TriageTexts :
       lastCall' = [NoFnCall EXCEPT !.op = "classify", !.text = content,
                                   !.result = classify(content)]
  /\ store' = store
  /\ CallFrame

InitFn ==
  /\ variant = "memory"
  /\ email_input = NullEmail
  /\ messages = <<>>
  /\ classification_decision = "null"
  /\ pc = "none"
  /\ pending = {}
  /\ resumes = <<>>
  /\ toolLog = <<>>
  /\ store \in StoreInputs
  /\ memLog = <<>>
  /\ steps = 0
  /\ lastCommand = NoCommand
  /\ lastRun = NoRun
  /\ interruptLog = <<>>
  /\ lastCall = NoFnCall
  /\ inflight = NoInflight

NextFn ==
  \/ getMemoryCall
  \/ updateMemoryCall
  \/ shouldContinueCall
  \/ classifyCall
  \/ scriptsGetMemoryCall

SpecFn == InitFn /\ [][NextFn]_vars

(***************************************************************************)
(* getMemory and updateMemory called by two threads on the one store of    *)
(* the compiled graph.  Each function is cut at its awaits: another        *)
(* thread's step can run between store.get, the LLM call and store.put.    *)
(***************************************************************************)
\* the profile the memory-update LLM produces from the current profile and
\* the feedback of thread t's conversation
ProfileWith(t) == "profile with feedback of " \o t
ProfileWithBoth == "profile with feedback of both threads"
Incorporate(currentProfile, t) ==
  IF currentProfile = ProfileWithBoth THEN ProfileWithBoth
  ELSE IF \E u \in Threads \ {t} : currentProfile = ProfileWith(u)
         THEN ProfileWithBoth
         ELSE ProfileWith(t)

\* userPreferences ? userPreferences.value.memoryContent : ""
currentProfileOf(item) == IF item = NoEntry THEN "" ELSE memoryContent(item)

SharedFrame ==
  UNCHANGED <<lastCall, variant, email_input, messages, classification_decision,
              pc, pending, resumes, toolLog, memLog, steps, lastCommand,
              lastRun, interruptLog>>

\* updateMemory up to its first await: store.get
updateMemoryGet ==
  /\ \E t \in Threads : \E ns \in Namespaces :
       /\ inflight[t].stage = "idle"
       /\ inflight' = [inflight EXCEPT ![t] =
                         [fn |-> "updateMemory", stage |-> "read", ns |-> ns,
                          read |-> store[ns], result |-> ""]]
  /\ store' = store
  /\ SharedFrame

\* updateMemory from store.get to the answer of the LLM; a failing call is
\* caught and the function returns
updateMemoryInvoke ==
  /\ \E t \in Threads :
       /\ inflight[t].fn = "updateMemory"
       /\ inflight[t].stage = "read"
       /\ \E result \in {Incorporate(currentProfileOf(inflight[t].read), t),
                          LlmFails} :
            inflight' = [inflight EXCEPT ![t] =
                           IF result = LlmFails THEN IdleCall
                           ELSE [@ EXCEPT !.stage = "invoked",
                                          !.result = result]]
  /\ store' = store
  /\ SharedFrame

\* updateMemory after the LLM answered: store.put of result.preferences
updateMemoryPut ==
  /\ \E t \in Threads :
       /\ inflight[t].fn = "updateMemory"
       /\ inflight[t].stage = "invoked"
       /\ store' = updateMemory(store, inflight[t].ns, inflight[t].result)
       /\ inflight' = [inflight EXCEPT ![t] = IdleCall]
  /\ SharedFrame

\* getMemory up to its first await: store.get
getMemoryGet ==
  /\ \E t \in Threads : \E ns \in Namespaces :
       /\ inflight[t].stage = "idle"
       /\ inflight' = [inflight EXCEPT ![t] =
                         [fn |-> "getMemory", stage |-> "read", ns |-> ns,
                          read |-> store[ns], result |-> ""]]
  /\ store' = store
  /\ SharedFrame

\* getMemory after store.get: return the content found, or put the default
getMemoryReturn ==
  /\ \E t \in Threads :
       /\ inflight[t].fn = "getMemory"
       /\ inflight[t].stage = "read"
       /\ store' = IF inflight[t].read # NoEntry THEN store
                   ELSE [store EXCEPT ![inflight[t].ns] =
                                        DefaultProfile(inflight[t].ns)]
       /\ inflight' = [inflight EXCEPT ![t] = IdleCall]
  /\ SharedFrame

InitShared ==
  /\ variant = "memory"
  /\ email_input = NullEmail
  /\ messages = <<>>
  /\ classification_decision = "null"
  /\ pc = "none"
  /\ pending = {}
  /\ resumes = <<>>
  /\ toolLog = <<>>
  /\ store = [ns \in Namespaces |-> NoEntry]
  /\ memLog = <<>>
  /\ steps = 0
  /\ lastCommand = NoCommand
  /\ lastRun = NoRun
  /\ interruptLog = <<>>
  /\ lastCall = NoFnCall
  /\ inflight = NoInflight

NextShared ==
  \/ updateMemoryGet
  \/ updateMemoryInvoke
  \/ updateMemoryPut
  \/ getMemoryGet
  \/ getMemoryReturn

SpecShared == InitShared /\ [][NextShared]_vars

(***************************************************************************)
(* A run of the HITL assistant without a bound on its length.  What the    *)
(* nodes do next depends on the last message, the resume values and the    *)
(* position only, so a turn of the response agent keeps the last message   *)
(* and leaves the logs alone.  steps counts the node executions of the     *)
(* current invocation: the runtime aborts an invocation with a             *)
(* GraphRecursionError once it has made recursionLimit of them (25 unless  *)
(* configured; the assistant does not configure it), and every             *)
(* Command({resume}) starts a new invocation.                              *)
(***************************************************************************)
RecursionLimit == 25

LastOf(msgs) == IF msgs = <<>> THEN <<>> ELSE <<msgs[Len(msgs)]>>

RunFrame ==
  UNCHANGED <<inflight, lastCall, variant, email_input, classification_decision,
              toolLog, memLog, interruptLog, lastCommand, lastRun>>

\* llm_call, then the conditional edge shouldContinue
llmCallTurn ==
  /\ variant \in {"hitl", "memory"}
  /\ pc = "llm_call"
  /\ pending = {}
  /\ steps < RecursionLimit
  /\ \E reply \in AgentReplies :
       LET update == llmCallUpdate(reply)
           edge == shouldContinue(messages \o update)
       IN /\ messages' = LastOf(messages \o update)
          /\ pc' = Route({edge})
  /\ store' = llmCallStore(variant, store)
  /\ steps' = steps + 1
  /\ UNCHANGED <<pending, resumes>>
  /\ RunFrame

\* interrupt_handler, then its static edge to llm_call
interruptHandlerTurn ==
  /\ pc = "interrupt_handler"
  /\ pending = {}
  /\ steps < RecursionLimit
  /\ \E toolOk \in BOOLEAN, llmResult \in LearnedProfiles \cup {LlmFails},
        now \in {"t0", "t1"} :
       LET run == interruptHandlerRun(variant, email_input, messages, resumes, store,
                                      toolOk, llmResult, now)
       IN /\ store' = run.st
          /\ IF run.status = "interrupted"
               THEN /\ pending' = {run.request}
                    /\ UNCHANGED <<messages, pc, resumes>>
             ELSE IF run.status = "threw"
               THEN /\ pc' = "failed"
                    /\ resumes' = <<>>
                    /\ UNCHANGED <<messages, pending>>
             ELSE /\ messages' = LastOf(withToolCalls(messages, run.calls)
                                           \o run.result)
                  /\ pc' = Route({run.goto, "llm_call"})
                  /\ resumes' = <<>>
                  /\ UNCHANGED pending
  /\ steps' = steps + 1
  /\ RunFrame

\* the human answers the pending interrupt: a new invocation resumes the thread
resumeRun ==
  /\ pending # {}
  /\ \E request \in pending : \E answer \in AnswersFor(request) :
       resumes' = Append(resumes, answer)
  /\ pending' = {}
  /\ steps' = 0
  /\ UNCHANGED <<messages, pc, store>>
  /\ RunFrame

\* the invocation has used up its steps: GraphRecursionError
recursionLimitReached ==
  /\ pc \in {"llm_call", "interrupt_handler"}
  /\ pending = {}
  /\ steps >= RecursionLimit
  /\ pc' = "failed"
  /\ UNCHANGED <<messages, pending, resumes, store, steps>>
  /\ RunFrame

InitRun ==
  /\ variant = "hitl"
  /\ email_input \in EmailInputs
  /\ messages = <<>>
  /\ classification_decision = "null"
  /\ pc = "triage_router"
  /\ pending = {}
  /\ resumes = <<>>
  /\ toolLog = <<>>
  /\ store = [ns \in Namespaces |-> NoEntry]
  /\ memLog = <<>>
  /\ steps = 0
  /\ lastCommand = NoCommand
  /\ lastRun = NoRun
  /\ interruptLog = <<>>
  /\ lastCall = NoFnCall
  /\ inflight = NoInflight

NextRun ==
  \/ triageRouterNode
  \/ triageInterruptHandlerNode
  \/ resumeRun
  \/ llmCallTurn
  \/ interruptHandlerTurn
  \/ recursionLimitReached

\* every LLM and tool call returns, so a node that can run does run; every
\* interrupt is answered
FairRun ==
  /\ WF_vars(triageRouterNode)
  /\ WF_vars(triageInterruptHandlerNode)
  /\ WF_vars(resumeRun)
  /\ WF_vars(llmCallTurn)
  /\ WF_vars(interruptHandlerTurn)
  /\ WF_vars(recursionLimitReached)

SpecRun == InitRun /\ [][NextRun]_vars /\ FairRun

(***************************************************************************)
(* Scripts variants: src/scripts/email_assistant_hitl.ts ("scripts.hitl")  *)
(* and src/scripts/email_assistant_hitl_memory.ts ("scripts.memory").      *)
(* Their two interrupting handlers are entered in the states the graph     *)
(* hands them.  interrupt() returns the resume value itself, an object     *)
(* { action, data }, and signals suspension by throwing GraphInterrupt     *)
(* inside the handler's try block.                                         *)
(***************************************************************************)
\* reviews a human may give when a scripts handler is resumed
ScriptsReviews ==
  { [action |-> "continue", data |-> Undefined],
    [action |-> "update", data |-> Obj("edited")],
    [action |-> "feedback", data |-> Str("please use a formal tone")],
    [action |-> "stop", data |-> Undefined],
    [action |-> "accept", data |-> Undefined],
    [action |-> "edit", data |-> Obj("request_edited")],
    [action |-> "ignore", data |-> Undefined] }

scriptsHitlTools == {"write_email", "schedule_meeting", "Question"}

\* tool-call lists of the AI message the interrupt handler is entered with
ScriptsToolCallLists ==
  {<<ToolCall(n, "call_1")>> : n \in {"write_email", "schedule_meeting", "Question",
                                        "check_calendar_availability", "search"}}
    \cup {<<ToolCall("write_email", "call_1"), ToolCall("schedule_meeting", "call_2")>>,
           <<ToolCall("check_calendar_availability", "call_1"),
             ToolCall("write_email", "call_2")>>}

\* what the catch block around interrupt() does with a GraphInterrupt:
\* only interruptHandler of scripts/email_assistant_hitl.ts tests
\* error.name === 'GraphInterrupt' and throws it again
rethrowsGraphInterrupt(v, node) ==
  v = "scripts.hitl" /\ node = "interrupt_handler"

\* body of the try block of the scripts triage handlers once interrupt()
\* returned humanReview
scriptsTriageReview(v, email, humanReview, st, llmResult) ==
  LET reviewAction == humanReview.action
      reviewData == humanReview.data
  IN IF v = "scripts.hitl"
       THEN LET messages_ == <<HumanMessage(<<"Email to review: ">>
                                             \o EmailMarkdown(email))>>
            IN IF reviewAction = "continue"
                 THEN [goto |-> "response_agent", messages |-> messages_,
                       st |-> st, memUpdates |-> <<>>]
               ELSE IF reviewAction = "feedback"
                 THEN [goto |-> "response_agent",
                       messages |-> Append(messages_, HumanMessage(<<reviewData.v>>)),
                       st |-> st, memUpdates |-> <<>>]
               ELSE [goto |-> END, messages |-> messages_,
                     st |-> st, memUpdates |-> <<>>]
       ELSE LET messages_ == <<HumanMessage(<<"Email to notify user about: ">>
                                             \o EmailMarkdown(email))>>
            IN IF reviewAction \in {"continue", "feedback"}
                 THEN [goto |-> "response_agent",
                       messages |->
                         IF Truthy(reviewData)
                           THEN Append(messages_,
                                  HumanMessage(<<"User wants to reply to the email",
                                                 ". Use this feedback to respond: ",
                                                 reviewData.v>>))
                           ELSE messages_,
                       st |-> updateMemory(st, "triage_preferences", llmResult),
                       memUpdates |-> <<"triage_preferences">>]
               ELSE [goto |-> END, messages |-> messages_,
                     st |-> updateMemory(st, "triage_preferences", llmResult),
                     memUpdates |-> <<"triage_preferences">>]

\* one execution of a scripts triage interrupt handler from its start
scriptsTriageRun(v, email, decision, rs, st, llmResult) ==
  LET base == [status |-> "returned", goto |-> END, messages |-> <<>>, st |-> st,
               memUpdates |-> <<>>, request |-> NoRequest, answer |-> NoAnswer,
               caught |-> FALSE]
      \* question: state.classification_decision || "notify"
      request == [node |-> "triage_interrupt_handler",
                  action |-> <<"Email requires attention: ",
                               IF decision \in {"null", ""} THEN "notify"
                               ELSE decision>>,
                  args |-> Obj("empty"),
                  name |-> "<triage>", id |-> NoId]
  IN IF parseEmail(email).threw
       THEN [base EXCEPT !.status = "threw"]
     ELSE IF ~interrupt(rs, 0).suspend
       THEN LET humanReview == interrupt(rs, 0).value
                cmd == scriptsTriageReview(v, email, humanReview, st, llmResult)
            IN [base EXCEPT !.goto = cmd.goto, !.messages = cmd.messages,
                            !.st = cmd.st, !.memUpdates = cmd.memUpdates,
                            !.answer = humanReview]
     ELSE IF rethrowsGraphInterrupt(v, "triage_interrupt_handler")
       THEN [base EXCEPT !.status = "interrupted",
                         !.request = request]
     ELSE \* catch (error): the Command of the catch block
          [base EXCEPT !.request = request,
                       !.caught = TRUE,
                       !.messages = <<SystemMessage(<<"Error in triage interrupt: ",
                                                      "GraphInterrupt">>)>>]

\* tool.invoke(args) inside the try block: whatever it throws is caught
scriptsInvoke(acc, tc, args, callId, env) ==
  IF tc.name \notin toolsByName
    THEN Processed(acc, ToolMessage(<<env.catchText, "tool error">>, callId),
                   callId)
    ELSE LET inv == Invoked(acc, tc.name, args, callId)
         IN IF ToolReturns(args, env.toolOk)
              THEN Processed(inv, ToolMessage(Observation(tc.name, args), callId), callId)
              ELSE Processed(Failed(inv, callId),
                             ToolMessage(<<env.catchText, "tool error">>,
                                         callId), callId)

\* scripts/email_assistant_hitl.ts: branches after interrupt() returned
scriptsHitlReview(acc, tc, callId, humanReview, env) ==
  LET reviewAction == humanReview.action
      reviewData == humanReview.data
  IN IF reviewAction = "continue"
       THEN scriptsInvoke(acc, tc, parsedArgs(tc.args), callId, env)
     ELSE IF reviewAction = "update"
       THEN scriptsInvoke(acc, tc, parsedArgs(reviewData), callId, env)
     ELSE IF reviewAction = "feedback"
       THEN Processed(acc, ToolMessage(<<reviewData.v>>, callId), callId)
     ELSE IF reviewAction = "stop"
       THEN [Processed(acc, ToolMessage(<<"User chose to stop this action.">>, callId),
                       callId) EXCEPT !.goto = END]
     ELSE [Processed(acc, ToolMessage(<<"Action not recognized or canceled by user.">>,
                                      callId), callId) EXCEPT !.goto = END]

\* scripts/email_assistant_hitl_memory.ts: branches after interrupt() returned
scriptsMemoryReview(acc, tc, callId, humanReview, env) ==
  LET reviewAction == humanReview.action
      reviewData == humanReview.data
  IN IF reviewAction = "accept"
       THEN scriptsInvoke(acc, tc, parsedArgs(tc.args), callId, env)
     ELSE IF reviewAction = "edit"
       THEN LET \* reviewData?.args || {}
                editedArgs == IF Truthy(Field_args(reviewData))
                                THEN Field_args(reviewData) ELSE Obj("empty")
                mutated == [acc EXCEPT !.calls = editedCalls(@, callId, editedArgs)]
                done == scriptsInvoke(mutated, tc, editedArgs, callId, env)
            IN IF Len(done.failed) = Len(acc.failed) /\ tc.name \in toolsByName
                 THEN MemoryUpdated(done, editNamespace(tc.name), env.llmResult)
                 ELSE done
     ELSE IF reviewAction = "ignore"
       THEN [MemoryUpdated(
               Processed(acc, ToolMessage(<<ignoredText(tc.name)>>, callId), callId),
               "triage_preferences", env.llmResult)
               EXCEPT !.goto = END]
     ELSE acc

\* one iteration of the loop over lastMessage.tool_calls of a scripts handler
scriptsHandleToolCall(acc, tc, env) ==
  LET callId == callIdOf(tc, "t0")
  IN IF tc.name \notin scriptsHitlTools
       THEN executeDirectly(acc, tc, callId, env)
     ELSE IF parseEmail(env.email).threw
       THEN Threw(acc)
     ELSE IF ~interrupt(env.rs, acc.k).suspend
       THEN LET humanReview == interrupt(env.rs, acc.k).value
                resumed == [acc EXCEPT !.k = @ + 1, !.answer = humanReview, !.call = tc]
            IN IF env.v = "scripts.memory"
                 THEN scriptsMemoryReview(resumed, tc, callId, humanReview, env)
                 ELSE scriptsHitlReview(resumed, tc, callId, humanReview, env)
     ELSE IF rethrowsGraphInterrupt(env.v, "interrupt_handler")
       THEN [acc EXCEPT !.status = "interrupted", !.call = tc,
                        !.request = toolInterruptRequest(tc, callId)]
     ELSE \* catch (error): a tool message, and the node goes on
          [Processed(acc, ToolMessage(<<env.catchText, "GraphInterrupt">>,
                                      callId), callId)
             EXCEPT !.call = tc, !.request = toolInterruptRequest(tc, callId),
                    !.caught = TRUE]

\* `if (processedOneToolCall) continue;` skips every later tool call
RECURSIVE scriptsToolCallLoop(_, _, _)
scriptsToolCallLoop(acc, i, env) ==
  IF i > Len(acc.calls) \/ acc.status # "running"
    THEN acc
    ELSE scriptsToolCallLoop(
           IF acc.processedOne THEN acc
           ELSE scriptsHandleToolCall(acc, acc.calls[i], env),
           i + 1, env)

\* one execution of a scripts interrupt handler from its start
scriptsInterruptHandlerRun(v, email, msgs, rs, st, toolOk, llmResult, now) ==
  LET lastMessage == msgs[Len(msgs)]
      \* catchText: the tool message of the catch block around interrupt()
      env == [v |-> v, email |-> email, rs |-> rs, toolOk |-> toolOk,
              llmResult |-> llmResult,
              catchText |-> IF v = "scripts.hitl" THEN "Error during tool execution: "
                            ELSE "Error processing tool: "]
      start == [result |-> <<>>, processed |-> {}, processedOne |-> FALSE,
                goto |-> "llm_call", invoked |-> <<>>, st |-> st,
                memUpdates |-> <<>>, failed |-> <<>>, status |-> "running", k |-> 0,
                request |-> NoRequest, answer |-> NoAnswer, call |-> NoCall,
                calls |-> lastMessage.tool_calls, caught |-> FALSE]
      \* responses for the calls nothing processed
      pendingReview(acc) ==
        LET rest == SelectSeq(acc.calls,
                              LAMBDA tc : callIdOf(tc, now) \notin acc.processed)
        IN [i \in 1..Len(rest) |->
              ToolMessage(<<"Tool execution pending human review.">>,
                          callIdOf(rest[i], now))]
  IN IF ~hasToolCalls(lastMessage)
       THEN start
       ELSE LET looped == scriptsToolCallLoop(start, 1, env)
            IN IF looped.status = "running" /\ ~looped.processedOne
                    /\ v = "scripts.hitl"
                 THEN [looped EXCEPT !.result = @ \o pendingReview(looped)]
                 ELSE looped

scriptsTriageInterruptHandler ==
  /\ variant \in {"scripts.hitl", "scripts.memory"}
  /\ pc = "triage_interrupt_handler"
  /\ pending = {}
  /\ steps < MaxSteps
  /\ \E llmResult \in LearnedProfiles \cup {LlmFails} :
       LET run == scriptsTriageRun(variant, email_input, classification_decision,
                                   resumes, store, llmResult)
       IN /\ store' = run.st
          /\ memLog' = memLog \o run.memUpdates
          /\ lastRun' = [NoRun EXCEPT !.node = "triage_interrupt_handler",
                                      !.status = run.status,
                                      !.answer = run.answer,
                                      !.memUpdates = run.memUpdates,
                                      !.caught = run.caught,
                                      !.turnRequests =
                                         IF run.request = NoRequest THEN <<>>
                                         ELSE <<run.request>>]
          /\ IF run.status = "interrupted"
               THEN /\ pending' = {run.request}
                    /\ interruptLog' = Append(interruptLog, run.request)
                    /\ UNCHANGED <<messages, pc, resumes, lastCommand>>
             ELSE IF run.status = "threw"
               THEN /\ pc' = "failed"
                    /\ resumes' = <<>>
                    /\ UNCHANGED <<messages, pending, interruptLog, lastCommand>>
             ELSE /\ messages' = messages \o run.messages
                  /\ pc' = IF variant = "scripts.hitl" THEN Route({run.goto})
                           ELSE Route({run.goto,
                                       triageInterruptEdge(messages \o run.messages)})
                  /\ resumes' = <<>>
                  /\ lastCommand' = [node |-> "triage_interrupt_handler",
                                     goto |-> run.goto,
                                     edge |-> IF variant = "scripts.hitl" THEN END
                                              ELSE triageInterruptEdge(
                                                     messages \o run.messages),
                                     messages |-> run.messages]
                  /\ UNCHANGED <<pending, interruptLog>>
  /\ steps' = steps + 1
  /\ UNCHANGED <<inflight, lastCall, variant, email_input, classification_decision,
                 toolLog>>

scriptsInterruptHandler ==
  /\ variant \in {"scripts.hitl", "scripts.memory"}
  /\ pc = "interrupt_handler"
  /\ pending = {}
  /\ steps < MaxSteps
  /\ \E toolOk \in BOOLEAN, llmResult \in LearnedProfiles \cup {LlmFails},
        now \in {"t0", "t1"} :
       LET run == scriptsInterruptHandlerRun(variant, email_input, messages, resumes,
                                             store, toolOk, llmResult, now)
       IN /\ toolLog' = toolLog \o run.invoked
          /\ store' = run.st
          /\ memLog' = memLog \o run.memUpdates
          /\ lastRun' = [NoRun EXCEPT !.node = "interrupt_handler",
                                      !.status = IF run.status = "running"
                                                   THEN "returned" ELSE run.status,
                                      !.answer = run.answer,
                                      !.call = run.call,
                                      !.calls = messages[Len(messages)].tool_calls,
                                      !.invoked = run.invoked,
                                      !.memUpdates = run.memUpdates,
                                      !.failed = run.failed,
                                      !.caught = run.caught,
                                      !.turnRequests =
                                         IF run.request = NoRequest THEN <<>>
                                         ELSE <<run.request>>]
          /\ IF run.status = "interrupted"
               THEN /\ pending' = {run.request}
                    /\ interruptLog' = Append(interruptLog, run.request)
                    /\ UNCHANGED <<messages, pc, resumes, lastCommand>>
             ELSE IF run.status = "threw"
               THEN /\ pc' = "failed"
                    /\ resumes' = <<>>
                    /\ UNCHANGED <<messages, pending, interruptLog, lastCommand>>
             ELSE /\ messages' = withToolCalls(messages, run.calls) \o run.result
                  /\ pc' = Route({run.goto, "llm_call"})
                  /\ resumes' = <<>>
                  /\ lastCommand' = [node |-> "interrupt_handler", goto |-> run.goto,
                                     edge |-> "llm_call", messages |-> run.result]
                  /\ UNCHANGED <<pending, interruptLog>>
  /\ steps' = steps + 1
  /\ UNCHANGED <<inflight, lastCall, variant, email_input, classification_decision>>

\* the graph is resumed with Command({ resume: review })
scriptsResume ==
  /\ variant \in {"scripts.hitl", "scripts.memory"}
  /\ pending # {}
  /\ \E review \in ScriptsReviews : resumes' = Append(resumes, review)
  /\ pending' = {}
  /\ UNCHANGED <<inflight, lastCall, variant, email_input, messages,
                 classification_decision, pc, toolLog, store, memLog, steps,
                 lastCommand, lastRun, interruptLog>>

\* a scripts workflow about to run one of its interrupting handlers: after
\* triage_router classified the email notify, or after llm_call proposed
\* tool calls for an email classified respond
InitScripts ==
  /\ variant \in {"scripts.hitl", "scripts.memory"}
  /\ email_input \in EmailInputs \ {NullEmail}
  /\ \/ /\ pc = "triage_interrupt_handler"
        /\ classification_decision = "notify"
        /\ messages = <<>>
     \/ /\ pc = "interrupt_handler"
        /\ classification_decision = "respond"
        /\ \E calls \in ScriptsToolCallLists :
             messages = <<HumanMessage(<<"Respond to the email: ">>
                                        \o EmailMarkdown(email_input)),
                          AIMessage(<<>>, calls)>>
  /\ pending = {}
  /\ resumes = <<>>
  /\ toolLog = <<>>
  /\ store = [ns \in Namespaces |-> NoEntry]
  /\ memLog = <<>>
  /\ steps = 0
  /\ lastCommand = NoCommand
  /\ lastRun = NoRun
  /\ interruptLog = <<>>
  /\ lastCall = NoFnCall
  /\ inflight = NoInflight

NextScripts ==
  \/ scriptsTriageInterruptHandler
  \/ scriptsInterruptHandler
  \/ scriptsResume

SpecScripts == InitScripts /\ [][NextScripts]_vars

(***************************************************************************)
(* Checkpointer-based HITL assistant (src/unnamed/part_002), variant       *)
(* "checkpointer": the graph is compiled with a MemorySaver, interrupt()   *)
(* is called outside any try block, and the resume value is an array       *)
(* whose first element is the human response.                              *)
(***************************************************************************)
\* the block for a tool that is not in the HITL list: neither the
\* not-found branch nor the try block ends the iteration
checkpointerExecuteDirectly(acc, tc, callId, env) ==
  LET noted == IF tc.name \notin toolsByName
                 THEN Processed(acc, ToolMessage(<<"Error: Tool ", tc.name,
                                                   " not found">>, callId), callId)
                 ELSE acc
      args == parsedArgs(tc.args)
  IN IF tc.name \notin toolsByName
       THEN \* tool is undefined: tool.invoke throws inside the try block
            Processed(noted, ToolMessage(<<"Error executing tool: ", "tool error">>,
                                         callId), callId)
       ELSE LET inv == Invoked(noted, tc.name, args, callId)
            IN IF ToolReturns(args, env.toolOk)
                 THEN Processed(inv, ToolMessage(Observation(tc.name, args), callId),
                                callId)
                 ELSE Processed(Failed(inv, callId),
                                ToolMessage(<<"Error executing tool: ", "tool error">>,
                                            callId), callId)

\* branches after interrupt(...)[0] returned
checkpointerReview(acc, tc, callId, humanReview, env) ==
  LET reviewAction == humanReview.type
      reviewData == humanReview.args
  IN IF reviewAction = "accept"
       THEN invokeUnguarded(acc, tc, parsedArgs(tc.args), callId, env)
     ELSE IF reviewAction = "edit" /\ reviewData.t = "object"
       THEN invokeUnguarded(acc, tc, reviewData, callId, env)
     ELSE IF reviewAction = "response" /\ reviewData.t = "string"
       THEN Processed(acc, ToolMessage(<<reviewData.v>>, callId), callId)
     ELSE IF reviewAction = "ignore"
       THEN [Processed(acc, ToolMessage(<<"User chose to ignore this action.">>,
                                        callId), callId) EXCEPT !.goto = END]
     ELSE Threw(acc)

\* one iteration of the loop over lastMessage.tool_calls
checkpointerHandleToolCall(acc, tc, env) ==
  LET callId == callIdOf(tc, "t0")
      direct == IF tc.name \notin hitlTools
                  THEN checkpointerExecuteDirectly(acc, tc, callId, env)
                  ELSE acc
  IN IF parseEmail(env.email).threw
       THEN Threw(direct)
     ELSE IF ~interrupt(env.rs, direct.k).suspend
       THEN LET humanReview == interrupt(env.rs, direct.k).value
                resumed == [direct EXCEPT !.k = @ + 1, !.answer = humanReview,
                                          !.call = tc]
            IN checkpointerReview(resumed, tc, callId, humanReview, env)
     ELSE [direct EXCEPT !.status = "interrupted", !.call = tc,
                         !.request =
                           [node |-> "interrupt_handler",
                            action |-> <<"Review this tool call before execution:">>,
                            args |-> tc.args, name |-> tc.name, id |-> callId]]

RECURSIVE checkpointerToolCallLoop(_, _, _)
checkpointerToolCallLoop(acc, i, env) ==
  IF i > Len(acc.calls) \/ acc.status # "running" \/ loopBreak(acc.processedOne)
    THEN acc
    ELSE checkpointerToolCallLoop(checkpointerHandleToolCall(acc, acc.calls[i], env),
                                  i + 1, env)

\* one execution of interruptHandlerNode from its start
checkpointerInterruptHandlerRun(email, msgs, rs, st, toolOk, now) ==
  LET lastMessage == msgs[Len(msgs)]
      env == [v |-> "checkpointer", email |-> email, rs |-> rs, toolOk |-> toolOk,
              llmResult |-> LlmFails]
      \* responses for the tool calls nothing processed
      pendingReview(acc) ==
        LET rest == SelectSeq(acc.calls,
                              LAMBDA tc : callIdOf(tc, now) \notin acc.processed)
        IN [i \in 1..Len(rest) |->
              ToolMessage(<<"Tool execution pending human review.">>,
                          callIdOf(rest[i], now))]
      start == [result |-> <<>>, processed |-> {}, processedOne |-> FALSE,
                goto |-> "llm_call", invoked |-> <<>>, st |-> st,
                memUpdates |-> <<>>, failed |-> <<>>, status |-> "running", k |-> 0,
                request |-> NoRequest, answer |-> NoAnswer, call |-> NoCall,
                calls |-> lastMessage.tool_calls]
  IN IF ~hasToolCalls(lastMessage)
       THEN start
       ELSE LET looped == checkpointerToolCallLoop(start, 1, env)
            IN IF looped.status = "running" /\ ~looped.processedOne
                 THEN [looped EXCEPT !.result = @ \o pendingReview(looped)]
                 ELSE looped

checkpointerInterruptHandlerNode ==
  /\ variant = "checkpointer"
  /\ pc = "interrupt_handler"
  /\ pending = {}
  /\ steps < MaxSteps
  /\ \E toolOk \in BOOLEAN, now \in {"t0", "t1"} :
       LET run == checkpointerInterruptHandlerRun(email_input, messages, resumes,
                                                  store, toolOk, now)
       IN /\ toolLog' = toolLog \o run.invoked
          /\ lastRun' = [NoRun EXCEPT
                           !.node = "interrupt_handler",
                           !.status = IF run.status = "running" THEN "returned"
                                      ELSE run.status,
                           !.answer = run.answer,
                           !.call = run.call,
                           !.calls = messages[Len(messages)].tool_calls,
                           !.invoked = run.invoked,
                           !.failed = run.failed,
                           !.reply = run.result,
                           !.turnInvoked =
                              (IF resumes = <<>> THEN <<>> ELSE lastRun.turnInvoked)
                                \o run.invoked,
                           !.turnRequests =
                              (IF resumes = <<>> THEN <<>> ELSE lastRun.turnRequests)
                                \o (IF run.status = "interrupted"
                                      THEN <<run.request>> ELSE <<>>)]
          /\ IF run.status = "interrupted"
               THEN /\ pending' = {run.request}
                    /\ interruptLog' = Append(interruptLog, run.request)
                    /\ UNCHANGED <<messages, pc, resumes, lastCommand>>
             ELSE IF run.status = "threw"
               THEN /\ pc' = "failed"
                    /\ resumes' = <<>>
                    /\ UNCHANGED <<messages, pending, interruptLog, lastCommand>>
             ELSE /\ messages' = messages \o run.result
                  /\ pc' = Route({run.goto, "llm_call"})
                  /\ resumes' = <<>>
                  /\ lastCommand' = [node |-> "interrupt_handler", goto |-> run.goto,
                                     edge |-> "llm_call", messages |-> run.result]
                  /\ UNCHANGED <<pending, interruptLog>>
  /\ steps' = steps + 1
  /\ UNCHANGED <<inflight, lastCall, variant, email_input, classification_decision,
                 store, memLog>>

\* the response agent about to run interrupt_handler on the tool calls
\* llm_call proposed for an email classified respond; shouldContinue ends
\* the agent on an empty list and on a list that names Done
InitCheckpointer ==
  /\ variant = "checkpointer"
  /\ email_input \in EmailInputs \ {NullEmail}
  /\ classification_decision = "respond"
  /\ pc = "interrupt_handler"
  /\ \E calls \in {l \in ToolCallLists :
                      l # <<>> /\ \A i \in 1..Len(l) : l[i].name # "Done"} :
       messages = <<HumanMessage(<<"Email to review: ">> \o EmailMarkdown(email_input)),
                    AIMessage(<<>>, calls)>>
  /\ pending = {}
  /\ resumes = <<>>
  /\ toolLog = <<>>
  /\ store = [ns \in Namespaces |-> NoEntry]
  /\ memLog = <<>>
  /\ steps = 0
  /\ lastCommand = NoCommand
  /\ lastRun = NoRun
  /\ interruptLog = <<>>
  /\ lastCall = NoFnCall
  /\ inflight = NoInflight

NextCheckpointer ==
  \/ checkpointerInterruptHandlerNode
  \/ HumanResume

SpecCheckpointer == InitCheckpointer /\ [][NextCheckpointer]_vars

(***************************************************************************)
(* Properties                                                              *)
(***************************************************************************)
ReviewedTools == {"write_email", "schedule_meeting"}

Last(seq) == seq[Len(seq)]

HandlerRan == lastRun.node = "interrupt_handler"
HandlerReturned == HandlerRan /\ lastRun.status = "returned"

\* tool messages of the last Command that carry a given tool_call_id
MessagesFor(id) ==
  {j \in 1..Len(lastCommand.messages) :
     /\ lastCommand.messages[j].role = "tool"
     /\ lastCommand.messages[j].tool_call_id = id}

\* C1: interrupt_handler invokes write_email or schedule_meeting only in an
\* execution that resumed with an accept or edit answer to the interrupt raised
\* for that very tool call; an execution without an answer, or with any other
\* answer, invokes neither tool.
C1_InvokedOnlyAfterApproval ==
  HandlerRan =>
    \A i \in 1..Len(lastRun.invoked) :
      lastRun.invoked[i].name \in ReviewedTools =>
        /\ lastRun.answer.type \in {"accept", "edit"}
        /\ lastRun.call.name = lastRun.invoked[i].name
        /\ interruptLog # <<>>
        /\ Last(interruptLog).node = "interrupt_handler"
        /\ Last(interruptLog).name = lastRun.invoked[i].name
        /\ Last(interruptLog).id = lastRun.invoked[i].callId
        /\ lastRun.turnRequests = <<Last(interruptLog)>>

C1_Witness ==
  /\ HandlerReturned
  /\ lastRun.answer.type = "edit"
  /\ lastRun.call.name = "write_email"
  /\ Len(lastRun.invoked) = 1
  /\ lastRun.invoked[1].name = "write_email"

\* C2: after an accept of a write_email or schedule_meeting call the tool has
\* been invoked exactly once over the task's executions, with the call's
\* original arguments, and when the handler returns its update holds exactly
\* one tool message with the call's id, carrying the tool's result.
C2_AcceptExecutesOnce ==
  (/\ HandlerRan
   /\ lastRun.status \in {"returned", "threw"}
   /\ lastRun.answer.type = "accept"
   /\ lastRun.call.name \in ReviewedTools) =>
    LET callId == callIdOf(lastRun.call, "t0")
    IN /\ lastRun.turnInvoked =
            <<Invocation(lastRun.call.name, lastRun.call.args, callId)>>
       /\ lastRun.status = "returned" =>
            /\ Cardinality(MessagesFor(callId)) = 1
            /\ \A j \in MessagesFor(callId) :
                 lastCommand.messages[j].content =
                   Observation(lastRun.call.name, lastRun.call.args)

C2_Witness ==
  /\ HandlerReturned
  /\ lastRun.answer.type = "accept"
  /\ lastRun.call.name = "schedule_meeting"
  /\ Len(toolLog) = 1
  /\ Cardinality(MessagesFor(lastRun.call.id)) = 1

\* C3: triage_router's classification_decision, the goto of its Command and
\* the conditional edge agree: respond -> response_agent with exactly one
\* 'Respond to the email' human message, notify -> triage_interrupt_handler,
\* ignore -> END, and goto and edge always name the same node.
C3_TriageRoutingConsistent ==
  lastCommand.node = "triage_router" =>
    /\ lastCommand.goto = lastCommand.edge
    /\ classification_decision = "respond" =>
         /\ lastCommand.goto = "response_agent"
         /\ pc = "llm_call"
         /\ Len(lastCommand.messages) = 1
         /\ lastCommand.messages[1].role = "human"
         /\ lastCommand.messages[1].content[1] = "Respond to the email: "
    /\ classification_decision = "notify" =>
         /\ lastCommand.goto = "triage_interrupt_handler"
         /\ pc = "triage_interrupt_handler"
         /\ lastCommand.messages = <<>>
    /\ classification_decision = "ignore" =>
         /\ lastCommand.goto = END
         /\ pc = END
         /\ lastCommand.messages = <<>>

C3_Witness ==
  /\ lastCommand.node = "triage_router"
  /\ classification_decision = "respond"
  /\ pc = "llm_call"
  /\ Len(messages) = 1

\* C4: once triage has classified the email as notify the workflow sits in
\* triage_interrupt_handler: the handler's execution without a human response
\* only raises the interrupt (no update, no move), and the node is left only by
\* an execution that consumes a human response supplied on resume.
C4_NotifySuspends ==
  /\ [](lastCommand.node = "triage_router" /\ classification_decision = "notify"
          => pc = "triage_interrupt_handler")
  /\ [][pc = "triage_interrupt_handler" =>
          /\ resumes = <<>> /\ pending = {} =>
               /\ pending' # {}
               /\ pc' = pc
               /\ messages' = messages
          /\ pc' # pc => resumes # <<>> /\ pending = {}
          /\ pending # {} => pc' = pc]_vars

C4_Witness ==
  /\ pc = "triage_interrupt_handler"
  /\ classification_decision = "notify"
  /\ pending # {}
  /\ messages = <<>>

\* C5: after the triage interrupt the workflow enters response_agent exactly
\* when the human answered with type response and non-empty feedback; with an
\* ignore answer, or any other answer, it is at END.
C5_TriageAnswerDecides ==
  lastCommand.node = "triage_interrupt_handler" =>
    /\ pc \in {"llm_call", END}
    /\ pc = "llm_call" <=>
         (lastRun.answer.type = "response" /\ Truthy(lastRun.answer.args))

\* C6: in both assistants an edit answer with the args object A makes the
\* handler invoke the tool exactly once, with A as supplied.
C6_EditInvokesSuppliedArgs ==
  (/\ HandlerRan
   /\ lastRun.status \in {"returned", "threw"}
   /\ lastRun.answer.type = "edit"
   /\ lastRun.answer.args.t = "object"
   /\ lastRun.call.name \in ReviewedTools) =>
    lastRun.turnInvoked =
      <<Invocation(lastRun.call.name, lastRun.answer.args,
                   callIdOf(lastRun.call, "t0"))>>

\* tool messages of the last Command whose content contains a text
MessagesWith(text) ==
  {j \in 1..Len(lastCommand.messages) :
     /\ lastCommand.messages[j].role = "tool"
     /\ Includes(lastCommand.messages[j].content, text)}

\* C7: after a response answer with a feedback text the tool has not been
\* invoked, the update holds exactly one tool message containing the feedback
\* text (the only message with the call's id when the call has one), and the
\* next node is llm_call.
C7_ResponseFeedsBack ==
  (/\ HandlerRan
   /\ lastRun.answer.type = "response"
   /\ lastRun.answer.args.t = "string") =>
    /\ lastRun.status = "returned"
    /\ lastRun.turnInvoked = <<>>
    /\ Cardinality(MessagesWith(lastRun.answer.args.v)) = 1
    /\ lastRun.call.id # NoId =>
         MessagesFor(lastRun.call.id) = MessagesWith(lastRun.answer.args.v)
    /\ pc = "llm_call"

C7_Witness ==
  /\ HandlerReturned
  /\ lastRun.answer = Answer("response", Str("please use a formal tone"))
  /\ lastRun.call.name = "write_email"
  /\ toolLog = <<>>
  /\ pc = "llm_call"

\* C8: after an ignore answer to a tool-call interrupt the tool has not been
\* invoked and the response agent is over: the next node is END.
C8_IgnoreEndsAgent ==
  (HandlerReturned /\ lastRun.answer.type = "ignore") =>
    /\ lastRun.turnInvoked = <<>>
    /\ pc = END

HaveDistinctIds(calls) ==
  /\ \A i \in 1..Len(calls) : calls[i].id # NoId
  /\ \A i, j \in 1..Len(calls) : calls[i].id = calls[j].id => i = j

DeferredText == "Tool execution deferred or pending subsequent review step."

\* C9: a thread has at most one pending interrupt, and one interrupt_handler
\* turn invokes at most one tool and raises at most one interrupt, both for the
\* first tool call of the last AI message; every later call only receives the
\* placeholder message.
C9_OneToolCallPerTurn ==
  /\ Cardinality(pending) <= 1
  /\ HandlerRan =>
       /\ Len(lastRun.turnInvoked) <= 1
       /\ Len(lastRun.turnRequests) <= 1
       /\ \A i \in 1..Len(lastRun.turnInvoked) :
            /\ lastRun.turnInvoked[i].name = lastRun.calls[1].name
            /\ lastRun.turnInvoked[i].callId = callIdOf(lastRun.calls[1], "t0")
       /\ \A i \in 1..Len(lastRun.turnRequests) :
            /\ lastRun.turnRequests[i].name = lastRun.calls[1].name
            /\ lastRun.turnRequests[i].id = callIdOf(lastRun.calls[1], "t0")
       /\ lastRun.status = "returned" =>
            \A j \in 2..Len(lastCommand.messages) :
              lastCommand.messages[j].content = <<DeferredText>>

C9_Witness ==
  /\ HandlerReturned
  /\ Len(lastRun.calls) = 2
  /\ lastRun.calls[2].name \in ReviewedTools
  /\ Len(lastRun.turnInvoked) = 1
  /\ Len(lastCommand.messages) = 2

\* C10: when interrupt_handler returns and the tool calls of the AI message
\* all have ids, pairwise distinct, its update consists of exactly one tool
\* message per tool call, carrying that call's id.
C10_OneToolMessagePerCall ==
  (HandlerReturned /\ HaveDistinctIds(lastRun.calls)) =>
    /\ Len(lastCommand.messages) = Len(lastRun.calls)
    /\ \A j \in 1..Len(lastCommand.messages) : lastCommand.messages[j].role = "tool"
    /\ \A i \in 1..Len(lastRun.calls) :
         Cardinality(MessagesFor(lastRun.calls[i].id)) = 1

C10_Witness ==
  /\ HandlerReturned
  /\ Len(lastRun.calls) = 2
  /\ HaveDistinctIds(lastRun.calls)
  /\ lastRun.answer.type = "ignore"
  /\ Len(lastCommand.messages) = 2

\* tool messages of the last Command that report a failed execution
ErrorMessagesFor(id) ==
  {j \in MessagesFor(id) :
     lastCommand.messages[j].content[1] = "Error executing tool: "}

\* C11: when tool.invoke throws inside interrupt_handler, whether the call was
\* executed directly or after a human accept or edit, the handler still
\* returns: its update holds exactly one error tool message for that call and
\* the workflow moves on to its next node.
C11_ToolFailureCaught ==
  (HandlerRan /\ lastRun.status # "interrupted" /\ lastRun.failed # <<>>) =>
    /\ lastRun.status = "returned"
    /\ pc # "failed"
    /\ \A i \in 1..Len(lastRun.failed) :
         Cardinality(ErrorMessagesFor(lastRun.failed[i])) = 1

\* C14: when the LLM call of llm_call throws, the node's update is exactly one
\* AI message 'Error calling model: ...' without tool calls, shouldContinue
\* answers END and the response agent is over without any tool executed in
\* that step.
C14_LlmErrorEndsAgent ==
  (lastRun.node = "llm_call" /\ lastRun.caught) =>
    /\ Len(lastCommand.messages) = 1
    /\ lastCommand.messages[1].role = "ai"
    /\ lastCommand.messages[1].content[1] = "Error calling model: "
    /\ lastCommand.messages[1].tool_calls = <<>>
    /\ Last(messages) = lastCommand.messages[1]
    /\ lastCommand.edge = END
    /\ pc = END
    /\ pending = {}

C14_Witness ==
  /\ lastRun.node = "llm_call"
  /\ lastRun.caught
  /\ variant = "memory"
  /\ Len(messages) = 2
  /\ pc = END

TriageRan == lastRun.node = "triage_router"

\* C12: when parsing the email or the triage LLM call throws, triage_router
\* catches it: the workflow is at END with no interrupt raised, the
\* classification is the fallback ('error' in the HITL assistants, 'ignore'
\* in the basic one) and exactly one system message has been appended.
C12_TriageErrorFallsBack ==
  /\ (TriageRan /\ email_input.isNull) => lastRun.caught
  /\ (TriageRan /\ lastRun.caught) =>
       /\ pc = END
       /\ classification_decision = (IF variant = "basic" THEN "ignore" ELSE "error")
       /\ Len(lastCommand.messages) = 1
       /\ lastCommand.messages[1].role = "system"
       /\ messages = lastCommand.messages
       /\ pending = {}
       /\ interruptLog = <<>>

C12_Witness ==
  /\ TriageRan
  /\ lastRun.caught
  /\ variant = "hitl"
  /\ ~email_input.isNull
  /\ classification_decision = "error"
  /\ Len(messages) = 1

\* C13 (as claimed): once triage_router has run, classification_decision is
\* one of ignore, respond, notify.
C13_ClassificationInEnum ==
  lastRun.node # "none" =>
    classification_decision \in {"ignore", "respond", "notify"}

\* C13 (amended): once triage_router has run, classification_decision is one
\* of ignore, respond, notify or error; it is error only in the HITL
\* assistants, exactly after triage_router caught an exception, and the
\* workflow is then at END.
C13_ClassificationInEnumOrError ==
  lastRun.node # "none" =>
    /\ classification_decision \in {"ignore", "respond", "notify", "error"}
    /\ classification_decision = "error" <=>
         (variant # "basic" /\ TriageRan /\ lastRun.caught /\ pc = END)

C13_Witness ==
  /\ TriageRan
  /\ variant = "memory"
  /\ classification_decision = "error"

NamesNoClass(text) ==
  \A w \in {"respond", "notify", "ignore"} : ~Includes(toLowerCase(text), w)

\* C16: in the basic assistant the response agent runs only after a respond
\* classification; after triage the workflow is in the response agent exactly
\* when the classification is respond, ignore and notify leave it at END with
\* an empty transcript, and a reply naming none of the three classes counts
\* as notify.
C16_BasicRespondOnly ==
  /\ pc \in {"llm_call", "environment"} => classification_decision = "respond"
  /\ (TriageRan /\ ~lastRun.caught) =>
       /\ pc = "llm_call" <=> classification_decision = "respond"
       /\ classification_decision \in {"ignore", "notify"} =>
            /\ pc = END
            /\ messages = <<>>
       /\ NamesNoClass(lastRun.reply) => classification_decision = "notify"

C16_Witness ==
  /\ variant = "basic"
  /\ TriageRan
  /\ lastRun.reply = <<"thanks">>
  /\ classification_decision = "notify"
  /\ pc = END
  /\ messages = <<>>

\* a step that is an execution of interrupt_handler
HandlerStep ==
  /\ pc = "interrupt_handler"
  /\ pending = {}
  /\ steps' = steps + 1
  /\ lastRun'.node = "interrupt_handler"

\* C17: the interrupt_handler turn that processes an accept leaves the memory
\* store as it was: neither the execution that raises the interrupt, nor the
\* resume, nor the execution that consumes the accept writes to any of the
\* three namespaces or runs updateMemory.
C17_AcceptKeepsStore ==
  [][/\ (HandlerStep /\ lastRun'.status = "interrupted") => store' = store
     /\ (pc = "interrupt_handler" /\ pending # {}) => store' = store
     /\ (HandlerStep /\ lastRun'.answer.type = "accept") =>
          /\ store' = store
          /\ lastRun'.memUpdates = <<>>
          /\ memLog' = memLog]_vars

C17_Witness ==
  /\ HandlerReturned
  /\ variant = "memory"
  /\ lastRun.answer.type = "accept"
  /\ lastRun.call.name = "schedule_meeting"
  /\ store["cal_preferences"] = DefaultProfile("cal_preferences")
  /\ Len(toolLog) = 1

\* the namespace an edit of a tool call is said to rewrite
EditedNamespace(name) ==
  IF name = "schedule_meeting" THEN "cal_preferences" ELSE "response_preferences"

\* C18: in the memory assistant, an edit of a schedule_meeting call runs
\* exactly one updateMemory, on cal_preferences, an edit of a write_email call
\* exactly one on response_preferences, and the other two namespaces keep
\* their content.
C18_EditRewritesProfile ==
  [][(/\ HandlerStep
      /\ variant = "memory"
      /\ lastRun'.status \in {"returned", "threw"}
      /\ lastRun'.answer.type = "edit"
      /\ lastRun'.answer.args.t = "object"
      /\ lastRun'.call.name \in ReviewedTools) =>
        /\ lastRun'.memUpdates = <<EditedNamespace(lastRun'.call.name)>>
        /\ \A ns \in Namespaces \ {EditedNamespace(lastRun'.call.name)} :
             store'[ns] = store[ns]]_vars

\* C15: shouldContinue answers interrupt_handler exactly when the transcript
\* is not empty and its last message is an AI message with at least one tool
\* call, none of them named Done; in every other case it answers END.
C15_ShouldContinueExact ==
  lastCall.op = "shouldContinue" =>
    LET msgs == lastCall.msgs
        continues ==
          /\ Len(msgs) > 0
          /\ Last(msgs).role = "ai"
          /\ Len(Last(msgs).tool_calls) >= 1
          /\ \A i \in 1..Len(Last(msgs).tool_calls) :
               Last(msgs).tool_calls[i].name # "Done"
    IN /\ continues => lastCall.result = "interrupt_handler"
       /\ ~continues => lastCall.result = END

C15_Witness ==
  /\ lastCall.op = "shouldContinue"
  /\ Len(lastCall.msgs) = 2
  /\ Len(Last(lastCall.msgs).tool_calls) = 2
  /\ Last(lastCall.msgs).tool_calls[2].name = "Done"
  /\ lastCall.result = END

\* C19: getMemory returns the stored profile and leaves the store alone when
\* the namespace has an entry; without an entry it stores the default and
\* returns it; an existing entry is never overwritten, not even when the
\* store read fails; the other namespaces are untouched.
C19_GetMemoryNeverOverwrites ==
  lastCall.op = "getMemory" =>
    LET ns == lastCall.ns
        had == lastCall.before[ns]
    IN /\ (lastCall.readOk /\ had # NoEntry) =>
            /\ lastCall.value = had
            /\ store = lastCall.before
       /\ (lastCall.readOk /\ had = NoEntry) =>
            /\ lastCall.value = DefaultProfile(ns)
            /\ store = [lastCall.before EXCEPT ![ns] = DefaultProfile(ns)]
       /\ had # NoEntry => store[ns] = had
       /\ \A other \in Namespaces \ {ns} : store[other] = lastCall.before[other]

\* C20: a successful updateMemory leaves the namespace holding exactly the
\* preferences string returned by the LLM, whatever it held before, and the
\* other namespaces as they were.
C20_UpdateReplacesProfile ==
  (lastCall.op = "updateMemory" /\ lastCall.llmResult # LlmFails) =>
    /\ store[lastCall.ns] = lastCall.llmResult
    /\ \A other \in Namespaces \ {lastCall.ns} :
         store[other] = lastCall.before[other]

C20_Witness ==
  /\ lastCall.op = "updateMemory"
  /\ lastCall.ns = "cal_preferences"
  /\ lastCall.before["cal_preferences"] = EarlierProfile
  /\ lastCall.before["triage_preferences"] = EarlierProfile
  /\ store["cal_preferences"] = "learned profile"
  /\ store["triage_preferences"] = EarlierProfile

\* C23: after a reject answer with a feedback text the tool has not been
\* invoked, the handler returns, the next node is llm_call, and the update
\* holds a tool message that carries the feedback text.
C23_RejectFeedsBack ==
  (/\ HandlerRan
   /\ lastRun.status # "interrupted"
   /\ lastRun.answer.type = "reject"
   /\ lastRun.answer.args.t = "string") =>
    /\ lastRun.status = "returned"
    /\ lastRun.turnInvoked = <<>>
    /\ pc = "llm_call"
    /\ MessagesWith(lastRun.answer.args.v) # {}

\* C24: the interrupt raised for a tool call under review carries an
\* action_request whose action is the name of the tool call and whose args
\* are the arguments of the tool call.
C24_RequestNamesTool ==
  \A request \in pending :
    request.node = "interrupt_handler" =>
      /\ request.action = <<lastRun.call.name>>
      /\ request.args = lastRun.call.args

\* the node scheduled after triage_interrupt_handler processed the delivered
\* answer, had the email been e
AfterTriageReview(e, llmResult) ==
  LET cmd == triageInterruptCommand(variant, e, resumes[1], store, llmResult)
  IN Route({cmd.goto, triageInterruptEdge(messages \o cmd.messages)})

\* C25: once the human's answer to the triage interrupt is in, the node that
\* follows triage_interrupt_handler is the same for every email text, and it
\* is END when the answer is ignore.
C25_TriageRoutingIgnoresEmailText ==
  (pc = "triage_interrupt_handler" /\ pending = {} /\ resumes # <<>>) =>
    \A llmResult \in LearnedProfiles \cup {LlmFails} :
      /\ \A e1, e2 \in EmailInputs \ {NullEmail} :
           AfterTriageReview(e1, llmResult) = AfterTriageReview(e2, llmResult)
      /\ resumes[1].type = "ignore" =>
           \A e \in EmailInputs \ {NullEmail} : AfterTriageReview(e, llmResult) = END

\* C27: an execution of triage_interrupt_handler or interrupt_handler that
\* reaches interrupt() has had no effect before it: no tool invoked, no store
\* write, no message; so over a whole turn (the interrupted execution and the
\* resumed one) every effect is the resumed execution's and happens once.
C27_NoEffectBeforeInterrupt ==
  [][/\ (steps' = steps + 1 /\ lastRun'.status = "interrupted") =>
          /\ lastRun'.node \in {"triage_interrupt_handler", "interrupt_handler"}
          /\ lastRun'.invoked = <<>>
          /\ lastRun'.memUpdates = <<>>
          /\ toolLog' = toolLog
          /\ store' = store
          /\ memLog' = memLog
          /\ messages' = messages
     /\ (HandlerStep /\ lastRun'.status # "interrupted") =>
          /\ lastRun'.turnInvoked = lastRun'.invoked
          /\ toolLog' = toolLog \o lastRun'.invoked
          /\ memLog' = memLog \o lastRun'.memUpdates]_vars

C27_Witness ==
  /\ HandlerReturned
  /\ lastRun.answer.type = "accept"
  /\ lastRun.turnRequests # <<>>
  /\ Len(toolLog) = 2
  /\ toolLog[1].name = "check_calendar_availability"
  /\ toolLog[2].name = "schedule_meeting"

\* stage of the top-level workflow a node belongs to
Stage(node) ==
  IF node = "triage_router" THEN 1
  ELSE IF node = "triage_interrupt_handler" THEN 2
  ELSE IF node \in {"llm_call", "interrupt_handler"} THEN 3
  ELSE 4

\* C29: the top-level workflow is linear: triage_router runs first and only
\* once, control never moves to an earlier stage, and the completion of
\* triage_router or of triage_interrupt_handler moves it to a later stage, so
\* each of them completes at most once and response_agent is entered at most
\* once, after them.
C29_WorkflowLinear ==
  /\ [](pc = "triage_router" <=> lastRun.node = "none")
  /\ [][/\ Stage(pc') >= Stage(pc)
        /\ (lastCommand' # lastCommand
              /\ lastCommand'.node \in {"triage_router", "triage_interrupt_handler"}) =>
             /\ lastCommand'.node = pc
             /\ Stage(pc') > Stage(pc)
        /\ (Stage(pc) < 3 /\ Stage(pc') = 3) => pc' = "llm_call"]_vars

C29_Witness ==
  /\ pc = END
  /\ lastRun.node = "llm_call"
  /\ interruptLog # <<>>
  /\ interruptLog[1].node = "triage_interrupt_handler"

\* what a handler execution hands back to the graph
HandlerOutcome(run) ==
  [status |-> run.status, goto |-> run.goto, messages |-> run.result,
   invoked |-> run.invoked, memUpdates |-> run.memUpdates]

\* C21: a failure inside updateMemory is swallowed: the handler that called it
\* returns, with the goto, messages and tool effects it has when the update
\* succeeds, and the store is left as it was.
C21_UpdateFailureSwallowed ==
  /\ (lastRun.node \in {"interrupt_handler", "triage_interrupt_handler"}
        /\ lastRun.memUpdates # <<>>) => lastRun.status = "returned"
  /\ (variant = "memory" /\ pc = "interrupt_handler" /\ pending = {}) =>
       \A toolOk \in BOOLEAN, now \in {"t0", "t1"}, profile \in LearnedProfiles :
         LET ok == interruptHandlerRun(variant, email_input, messages, resumes,
                                       store, toolOk, profile, now)
             ko == interruptHandlerRun(variant, email_input, messages, resumes,
                                       store, toolOk, LlmFails, now)
         IN /\ HandlerOutcome(ko) = HandlerOutcome(ok)
            /\ ko.memUpdates # <<>> => ko.st = store /\ ko.status = "running"
  /\ (variant = "memory" /\ pc = "triage_interrupt_handler" /\ pending = {}
        /\ resumes # <<>>) =>
       \A profile \in LearnedProfiles :
         LET ok == triageInterruptCommand(variant, email_input, resumes[1], store,
                                          profile)
             ko == triageInterruptCommand(variant, email_input, resumes[1], store,
                                          LlmFails)
         IN /\ ko.goto = ok.goto
            /\ ko.messages = ok.messages
            /\ ko.memUpdates = ok.memUpdates
            /\ ko.st = store

C21_Witness ==
  /\ HandlerReturned
  /\ variant = "memory"
  /\ lastRun.answer.type = "response"
  /\ lastRun.memUpdates = <<"response_preferences">>
  /\ store["response_preferences"] = DefaultProfile("response_preferences")
  /\ pc = "llm_call"

\* the reply contains the word, whatever its letter case
Mentions(text, word) == Includes(toLowerCase(text), word)

\* C30: the classification is read from the reply by substring with fixed
\* precedence: respond wins over notify and ignore, notify wins over ignore,
\* and a reply with none of the three words is notify.
C30_ClassifyPrecedence ==
  lastCall.op = "classify" =>
    LET text == lastCall.text
    IN /\ Mentions(text, "respond") => lastCall.result = "respond"
       /\ (~Mentions(text, "respond") /\ Mentions(text, "notify")) =>
            lastCall.result = "notify"
       /\ (~Mentions(text, "respond") /\ ~Mentions(text, "notify")
             /\ Mentions(text, "ignore")) => lastCall.result = "ignore"
       /\ (~Mentions(text, "respond") /\ ~Mentions(text, "notify")
             /\ ~Mentions(text, "ignore")) => lastCall.result = "notify"

C30_Witness ==
  /\ lastCall.op = "classify"
  /\ lastCall.text = <<"Notify", "respond">>
  /\ lastCall.result = "respond"

\* the profile text a store entry holds
ProfileText(item) == IF item = ValueItem THEN SeededPreference ELSE item

\* the profile stored for a namespace, the default when there is no entry
StoredProfile(st, ns) ==
  IF st[ns] # NoEntry THEN ProfileText(st[ns]) ELSE DefaultProfile(ns)

PromptNamespaces == {"cal_preferences", "response_preferences"}

LlmCallStep == pc = "llm_call" /\ lastRun'.node = "llm_call" /\ steps' = steps + 1

\* C22: every llm_call of the memory assistant puts into its prompt the
\* profile stored at that moment for cal_preferences and response_preferences
\* (the default only when there is no entry), in whichever thread it runs;
\* and a stored profile is replaced by nothing but an updateMemory of the
\* same step, so the profile an updateMemory wrote is what later calls read.
C22_PromptUsesStoredProfile ==
  [][/\ (variant = "memory" /\ LlmCallStep) =>
          \A ns \in PromptNamespaces :
             lastRun'.prompt[ns] = StoredProfile(store, ns)
     /\ \A ns \in PromptNamespaces :
          (store[ns] # NoEntry /\ store'[ns] # store[ns]) =>
             /\ \E i \in 1..Len(lastRun'.memUpdates) : lastRun'.memUpdates[i] = ns
             /\ store'[ns] \in LearnedProfiles]_vars

\* thread t's updateMemory performs its store.put in this step
PutBy(t) ==
  /\ inflight[t].fn = "updateMemory"
  /\ inflight[t].stage = "invoked"
  /\ inflight'[t].stage = "idle"

\* C26: updateMemory's read of the current profile and its write of the new
\* one are atomic with respect to the other thread's writes: when a thread
\* puts its new profile, the namespace still holds the item that thread read.
C26_UpdateReadWriteAtomic ==
  [][\A t \in Threads :
       PutBy(t) => store[inflight[t].ns] = inflight[t].read]_vars

\* a node threw, or the runtime raised GraphRecursionError: the invocation is
\* aborted
Aborted == pc = "failed"

llmCallStops == llmCallTurn /\ pc' = END

Extends(msgs, earlier) ==
  /\ Len(msgs) >= Len(earlier)
  /\ \A i \in 1..Len(earlier) : msgs[i] = earlier[i]

\* C31 as stated: every step only extends the transcript at its end; no
\* message already in it is removed, reordered or modified.
C31_TranscriptAppendOnly == [][Extends(messages', messages)]_vars

\* the memory assistant's interrupt_handler returned from its edit branch
MemoryEditStep ==
  /\ variant = "memory"
  /\ HandlerStep
  /\ lastRun'.status = "returned"
  /\ lastRun'.answer.type = "edit"
  /\ Field_args(lastRun'.answer.args) # Undefined

\* C31, amended: the transcript is append-only except in the edit branch of
\* the memory assistant, which replaces the args of the edited tool call in
\* the last AI message by the edited args and changes nothing else.
C31_AppendOnlyExceptEditedCall ==
  [][IF MemoryEditStep
       THEN LET n == Len(messages)
                before == messages[n]
                after == messages'[n]
            IN /\ Len(messages') >= n
               /\ \A i \in 1..(n - 1) : messages'[i] = messages[i]
               /\ [after EXCEPT !.tool_calls = before.tool_calls] = before
               /\ Len(after.tool_calls) = Len(before.tool_calls)
               /\ \A i \in 1..Len(before.tool_calls) :
                    after.tool_calls[i] =
                      IF before.tool_calls[i].id = lastRun'.call.id
                           /\ lastRun'.call.id # NoId
                        THEN [before.tool_calls[i] EXCEPT
                                !.args = Field_args(lastRun'.answer.args)]
                        ELSE before.tool_calls[i]
       ELSE Extends(messages', messages)]_vars

\* an edited write_email call followed by a second call: the AI message in the
\* transcript now carries the edited args
C31_Witness ==
  /\ variant = "memory"
  /\ HandlerReturned
  /\ lastRun.answer.type = "edit"
  /\ Len(lastRun.calls) = 2
  /\ \E i \in 1..Len(messages) :
       /\ messages[i].role = "ai"
       /\ Len(messages[i].tool_calls) = 2
       /\ messages[i].tool_calls[1].args = Obj("edited")
       /\ messages[i].tool_calls[2].args = Obj("proposed")

\* the message carries a Done tool call
CallsDone(message) ==
  /\ message.role = "ai"
  /\ \E j \in 1..Len(message.tool_calls) : message.tool_calls[j].name = "Done"

\* C32: an AI message with a Done tool call, alone or together with other
\* tool calls, ends the agent at once: the message stays the last one of the
\* transcript (no tool message follows for any of its calls), the run is at
\* END and no interrupt is pending for it.
C32_DoneEndsAtOnce ==
  \A i \in 1..Len(messages) :
     CallsDone(messages[i]) =>
       /\ i = Len(messages)
       /\ pc = END
       /\ pending = {}
       /\ lastRun.node = "llm_call"

C32_Witness ==
  /\ variant = "hitl"
  /\ messages # <<>>
  /\ CallsDone(messages[Len(messages)])
  /\ Len(messages[Len(messages)].tool_calls) = 2
  /\ messages[Len(messages)].tool_calls[1].name = "write_email"
  /\ toolLog = <<>>
  /\ interruptLog = <<>>
  /\ pc = END

\* the memory assistant's interrupt_handler returned after an ignore answer
MemoryIgnoreStep ==
  /\ variant = "memory"
  /\ HandlerStep
  /\ lastRun'.status = "returned"
  /\ lastRun'.answer.type = "ignore"
  /\ lastRun'.call.name \in hitlTools

\* what the ignore branch does to the store, the tools and the Command
IgnoreEffects ==
  /\ lastRun'.memUpdates = <<"triage_preferences">>
  /\ store'["response_preferences"] = store["response_preferences"]
  /\ store'["cal_preferences"] = store["cal_preferences"]
  /\ lastRun'.invoked = <<>>
  /\ toolLog' = toolLog
  /\ lastCommand'.goto = END

\* C33: in the memory assistant, ignoring a proposed write_email,
\* schedule_meeting or question call runs exactly one updateMemory, on
\* triage_preferences, leaves the two other namespaces unchanged, executes
\* no tool, and the next node is END.
C33_IgnoreUpdatesTriageAndEnds ==
  [][MemoryIgnoreStep => (IgnoreEffects /\ pc' = END)]_vars

\* C34: in the memory assistant, response feedback on a schedule_meeting
\* call is used to update the calendar preferences: the turn's updateMemory
\* is applied to cal_preferences.
C34_MeetingFeedbackUpdatesCalendar ==
  [][(/\ variant = "memory"
      /\ HandlerStep
      /\ lastRun'.status = "returned"
      /\ lastRun'.answer.type = "response"
      /\ lastRun'.call.name = "schedule_meeting")
        => lastRun'.memUpdates = <<"cal_preferences">>]_vars

\* the memory assistant's triage_interrupt_handler consumed the human's answer
TriageReviewStep ==
  /\ variant = "memory"
  /\ pc = "triage_interrupt_handler"
  /\ resumes # <<>>
  /\ lastRun'.node = "triage_interrupt_handler"
  /\ lastRun'.status = "returned"

OneTriageUpdate ==
  /\ lastRun'.memUpdates = <<"triage_preferences">>
  /\ memLog' = memLog \o <<"triage_preferences">>
  /\ \A ns \in Namespaces \ {"triage_preferences"} : store'[ns] = store[ns]

NoUpdateAndEnd ==
  /\ lastRun'.memUpdates = <<>>
  /\ memLog' = memLog
  /\ store' = store
  /\ pc' = END

\* C35 as stated: at the triage interrupt of the memory assistant, a response
\* answer and an ignore answer each run exactly one updateMemory, on
\* triage_preferences, and touch no other namespace; any other answer runs
\* no memory update and ends the workflow.
C35_TriageAnswerUpdatesTriage ==
  [][TriageReviewStep =>
       IF lastRun'.answer.type \in {"response", "ignore"}
         THEN OneTriageUpdate ELSE NoUpdateAndEnd]_vars

NonEmptyText(x) == x.t = "string" /\ x.v # ""

\* C35, amended: a response answer with non-empty feedback and an ignore
\* answer each run exactly one updateMemory, on triage_preferences, and touch
\* no other namespace; every other answer, a response with empty feedback
\* included, runs no memory update and ends the workflow.
C35_RecognisedAnswerUpdatesTriage ==
  [][TriageReviewStep =>
       IF \/ (lastRun'.answer.type = "response"
                /\ NonEmptyText(lastRun'.answer.args))
          \/ lastRun'.answer.type = "ignore"
         THEN OneTriageUpdate ELSE NoUpdateAndEnd]_vars

C35_Witness ==
  /\ variant = "memory"
  /\ lastRun.node = "triage_interrupt_handler"
  /\ lastRun.status = "returned"
  /\ lastRun.answer = Answer("response", Str(""))
  /\ memLog = <<>>
  /\ pc = END

\* the memory assistant's interrupt_handler returned after an accept answer
MemoryAcceptStep ==
  /\ variant = "memory"
  /\ HandlerStep
  /\ lastRun'.status = "returned"
  /\ lastRun'.answer.type = "accept"

\* C36: in the memory assistant, accepting a write_email call ends the
\* response agent, no llm_call follows; accepting a schedule_meeting call
\* returns to llm_call.
C36_AcceptedEmailEndsAgent ==
  [][MemoryAcceptStep =>
       /\ lastRun'.call.name = "write_email" => pc' = END
       /\ lastRun'.call.name = "schedule_meeting" => pc' = "llm_call"]_vars

\* C37: in the src and in the scripts implementation, the value getMemory
\* returns for a namespace is exactly the profile string the store holds for
\* it when the call returns, the one most recently stored by getMemory's
\* default initialisation or by updateMemory.
C37_GetMemoryRoundTrip ==
  lastCall.op \in {"getMemory", "scripts.getMemory"} =>
    lastCall.value = store[lastCall.ns]

(***************************************************************************)
(* C38: in the scripts HITL variants, whenever interrupt() inside a        *)
(* handler's try block raises the interrupt signal, the signal reaches the *)
(* graph runtime: the workflow suspends on that request, and the handler   *)
(* neither appends a message nor moves the workflow on.                    *)
(***************************************************************************)
ScriptsHandlerStep ==
  /\ variant \in {"scripts.hitl", "scripts.memory"}
  /\ steps' = steps + 1
  /\ lastRun'.node \in {"triage_interrupt_handler", "interrupt_handler"}

InterruptSignalled(run) == run.turnRequests # <<>>

C38_InterruptRethrown ==
  [][ (ScriptsHandlerStep /\ InterruptSignalled(lastRun'))
        => /\ lastRun'.status = "interrupted"
           /\ pending' = {lastRun'.turnRequests[1]}
           /\ messages' = messages
           /\ pc' = pc ]_vars

(***************************************************************************)
(* C39: in the checkpointer-based HITL assistant, when interrupt_handler   *)
(* takes up a tool call whose tool exists and is not in the HITL list, it  *)
(* executes the call directly: the execution returns without raising an    *)
(* interrupt for the call, the tool has been invoked exactly once for it,  *)
(* and the returned update holds exactly one tool message with its id.     *)
(***************************************************************************)
DirectCall(run) ==
  /\ run.node = "interrupt_handler"
  /\ run.calls # <<>>
  /\ run.calls[1].name \in toolsByName \ hitlTools

InvocationsFor(run, id) ==
  {j \in 1..Len(run.turnInvoked) : run.turnInvoked[j].callId = id}

C39_DirectExecutionOnce ==
  (variant = "checkpointer" /\ DirectCall(lastRun)) =>
    /\ lastRun.status = "returned"
    /\ lastRun.turnRequests = <<>>
    /\ Cardinality(InvocationsFor(lastRun, lastRun.calls[1].id)) = 1
    /\ Cardinality(MessagesFor(lastRun.calls[1].id)) = 1

====
